---- MODULE Spec2Model ----
(***************************************************************************)
(* Model of the AGT bidding competition host: GameManager drives the       *)
(* auction rounds, AgentManager runs every bid / update of a team inside   *)
(* a worker process and keeps the team's serialized state between calls.   *)
(*                                                                         *)
(* Money is counted in cents.  A guest returns its raw bid in tenths of a  *)
(* cent, so that round(float(bid), 2) is a real conversion.                *)
(***************************************************************************)
EXTENDS Integers, Sequences, FiniteSets, TLC

VARIABLES
    start_method,    \* multiprocessing start method of the platform
    team_agents,     \* team_id -> agent file handed to run_game
    gm_pc,           \* position of run_game / execute_auction_round
    agents,          \* GameManager.agents (team ids holding a proxy)
    budgets,         \* GameManager.budgets
    valuations,      \* GameManager.valuations
    items_won,       \* GameManager.items_won
    auction_log,     \* GameManager.auction_log
    bids,            \* local bids of execute_auction_round
    round_result,    \* local round_result of execute_auction_round
    loggers_disabled,\* logging configuration of the host process
    agent_metadata,  \* AgentManager.agent_metadata
    agent_states,    \* AgentManager.agent_states
    call,            \* the bid / update call in flight
    worker,          \* the worker process of the call in flight
    history,         \* team -> <<kind, item, outcome>> of its calls; the outcome is
                     \* success, Timeout, Failed, NoState or NotRegistered
    last_success,    \* team -> state stored at the team's last successful call
    faults,          \* number of guest faults injected so far
    host_exec,       \* <<team, place>>: guest code of team ran in the host process
    test_agent,      \* the object validate_agent is applied to
    team_results     \* what _calculate_final_results returned

vars == <<start_method, team_agents, gm_pc, agents, budgets, valuations,
          items_won, auction_log, bids, round_result, loggers_disabled,
          agent_metadata, agent_states, call, worker, history,
          last_success, faults, host_exec, test_agent, team_results>>

hostvars == <<budgets, valuations, items_won, auction_log, loggers_disabled>>

----------------------------------------------------------------------------
(* Bounds of the model *)

T_AUCTION_ROUNDS == 4

MaxFaults == 1

(* Program constants *)

INITIAL_BUDGET == 6000

timeout_seconds == 30

GraceWindow == 10

\* the team ids of a game, in loading order; "your_agent" is the id that
\* execute_auction_round tests for before it collects the bids
TeamSeq == <<"team_good", "your_agent">>

Teams == {TeamSeq[i] : i \in 1..Len(TeamSeq)}

Items == 1..T_AUCTION_ROUNDS

auction_sequence == [k \in 1..T_AUCTION_ROUNDS |-> T_AUCTION_ROUNDS + 1 - k]

\* Agent files that register: the example and the malicious agents of
\* tests/, "import_saboteur", a file whose module-level code rewrites the
\* records of the teams registered before it, and "pickle_payload", a file
\* whose bidding_function stores an object with a __reduce__ of its own in
\* a public field, and "wild_bidder", a file whose bidding_function
\* returns minus its valuation for odd items and 99999.99 for even ones,
\* and "big_state", a file whose bidding_function keeps a string of a
\* megabyte in a public field.
AgentFiles == {"truthful_bidder", "gc_memory_scanner", "budget_injector",
               "logger_hijacker", "module_saboteur", "import_saboteur",
               "pickle_payload", "wild_bidder", "big_state"}

\* Agent files that do not register: a path at which no file exists, a
\* module without BiddingAgent, a BiddingAgent without a budget attribute,
\* a constructor that raises ValueError, a constructor that calls
\* sys.exit(), module-level code that never terminates.
FailingFiles == {"missing_file", "no_class", "bad_shape", "ctor_raises",
                 "ctor_exits", "import_hangs"}

StartMethods == {"fork", "spawn"}

fixed_valuations ==
    [t \in Teams |-> [i \in Items |->
        IF t = "team_good" THEN 1000 + 501 * i ELSE 2838 - 333 * i]]

Opponents(t) == Teams \ {t}

----------------------------------------------------------------------------
(* Values *)

None == [some |-> FALSE, d |-> {}]

Some(d) == [some |-> TRUE, d |-> d]

NoCall == [kind |-> "none", team |-> "", item |-> 0, pc |-> "idle",
           agent_state |-> None, winner |-> "", price |-> 0,
           waited |-> 0, deadline_status |-> "", alive_at_check |-> FALSE,
           grace_expired |-> FALSE, alive_after_grace |-> FALSE,
           ret |-> [bid |-> 0, error |-> "None", ok |-> FALSE]]

NoWorker == [status |-> "none", team |-> "", view |-> {}, args |-> <<>>,
             agent |-> {}, queue |-> <<>>, raw_bid |-> 0,
             ignores_term |-> FALSE, op_invoked |-> FALSE,
             restored |-> None,
             mem |-> [budgets |-> <<>>, valuations |-> <<>>,
                      loggers_disabled |-> FALSE]]

Alive(w) == w.status \in {"started", "constructed", "ran", "put"}

\* a worker that has put a result too large for the pipe of its queue: the
\* queue's feeder thread cannot finish writing until the host reads, and
\* the process cannot exit before the feeder thread has finished
Blocked(w) ==
    /\ w.status = "put"
    /\ w.queue # <<>>
    /\ <<"big", 0>> \in Head(w.queue).new_state

----------------------------------------------------------------------------
(* Pure helpers *)

\* round(float(bid), 2): tenths of a cent -> cents, half to even
Round2(m) ==
    LET q == m \div 10
        r == m % 10
    IN  IF r > 5 \/ (r = 5 /\ q % 2 = 1) THEN q + 1 ELSE q

Max(S) == CHOOSE x \in S : \A y \in S : y <= x

\* memory a freshly started worker of team t can enumerate
WorkerView(t, method, meta) ==
    IF method = "fork"
    THEN {<<"budgets", "GameManager">>, <<"valuations", "GameManager">>}
         \cup {<<"valuation_vector", u>> : u \in DOMAIN meta}
         \cup {<<"agent_state", u>> : u \in DOMAIN meta}
    ELSE {<<"valuation_vector", t>>, <<"agent_state", t>>}

\* what the guest's bidding_function returns, in tenths of a cent
GuestBid(file, t, item, vv, mem) ==
    LET own == vv[item] * 10
        stolen == mem.valuations
    IN  CASE file = "gc_memory_scanner" ->
                IF DOMAIN stolen # {}
                THEN Max({0} \cup {stolen[u][item] : u \in DOMAIN stolen \ {t}}) * 10 + 10
                ELSE own
          [] file = "module_saboteur" -> vv[item] * 5
          [] file = "wild_bidder" ->
                IF item % 2 = 1 THEN 0 - own ELSE 99999990
          [] OTHER -> own

\* writes the guest's bidding_function makes to the memory it can reach
GuestWrites(file, t, mem) ==
    CASE file = "budget_injector" ->
            IF t \in DOMAIN mem.budgets
            THEN [mem EXCEPT !.budgets = [mem.budgets EXCEPT ![t] = 99999900]]
            ELSE mem
      [] file = "logger_hijacker" -> [mem EXCEPT !.loggers_disabled = TRUE]
      [] OTHER -> mem

\* an object whose class defines __reduce__ to name a callable of the
\* guest's choice, and the value that callable returns
Payload == <<"payload", 0>>

PayloadResult == <<"payload", 1>>

\* a field whose name starts with an underscore, a field holding a callable
\* (a lambda) and a field pickle.dumps raises on (a threading.Lock)
PrivateField == <<"_cache", 0>>

CallableField == <<"strategy", 0>>

LockField == <<"lock", 0>>

\* a field holding a string longer than the buffer of the queue's pipe
BigField == <<"big", 0>>

\* fields the guest's operation sets besides its own record of the call
GuestFields(file, kind) ==
    CASE file = "pickle_payload" /\ kind = "bid" -> {Payload}
      [] file = "wild_bidder" -> {PrivateField, CallableField, LockField}
      [] file = "big_state" /\ kind = "bid" -> {BigField}
      [] OTHER -> {}

\* key.startswith('_')
startswith_underscore(f) == f = PrivateField

\* callable(value)
callable_value(f) == f = CallableField

\* pickle.dumps(value) returns without raising
dumps_ok(f) == f \notin {CallableField, LockField}

\* new_state: the fields of agent.__dict__ that pass the three tests
Serialize(agent) ==
    {f \in agent : /\ ~startswith_underscore(f)
                   /\ ~callable_value(f)
                   /\ dumps_ok(f)}

\* pickle.loads of a pickled state runs the callable a __reduce__ named
RunsReduce(d) == Payload \in d

\* pickle.loads(pickle.dumps(d))
loads(d) == IF RunsReduce(d) THEN (d \ {Payload}) \cup {PayloadResult} ELSE d

\* AuctionEngine.execute_round: second-price settlement on clipped bids
Clip(b, budget) == IF b < 0 THEN 0 ELSE IF b > budget THEN budget ELSE b

TeamIndex(t) == CHOOSE i \in 1..Len(TeamSeq) : TeamSeq[i] = t

\* execute_round as it would be with a first-price rule
execute_round_FirstPrice(round_number, item_id, bs, bud) ==
    LET c == [t \in DOMAIN bs |-> Clip(bs[t], bud[t])]
        top == Max({0} \cup {c[t] : t \in DOMAIN c})
        best == {t \in DOMAIN c : c[t] = top}
        w == CHOOSE t \in best : \A u \in best : TeamIndex(t) <= TeamIndex(u)
        second == Max({0} \cup {c[t] : t \in DOMAIN c \ {w}})
    IN  IF top = 0
        THEN [round_number |-> round_number, item_id |-> item_id,
              winner_id |-> "", price_paid |-> 0, all_bids |-> bs]
        ELSE [round_number |-> round_number, item_id |-> item_id,
              winner_id |-> w, price_paid |-> top, all_bids |-> bs]

execute_round(round_number, item_id, bs, bud) ==
    LET c == [t \in DOMAIN bs |-> Clip(bs[t], bud[t])]
        top == Max({0} \cup {c[t] : t \in DOMAIN c})
        best == {t \in DOMAIN c : c[t] = top}
        w == CHOOSE t \in best : \A u \in best : TeamIndex(t) <= TeamIndex(u)
        second == Max({0} \cup {c[t] : t \in DOMAIN c \ {w}})
    IN  IF top = 0
        THEN [round_number |-> round_number, item_id |-> item_id,
              winner_id |-> "", price_paid |-> 0, all_bids |-> bs]
        ELSE [round_number |-> round_number, item_id |-> item_id,
              winner_id |-> w, price_paid |-> second, all_bids |-> bs]

NoResult == [round_number |-> 0, item_id |-> 0, winner_id |-> "",
             price_paid |-> 0, all_bids |-> <<>>]

----------------------------------------------------------------------------
(* Initial state: a freshly constructed GameManager and AgentManager *)

Init ==
    /\ start_method \in StartMethods
    /\ team_agents \in
         {f \in [Teams -> AgentFiles \cup FailingFiles] :
             \/ f["team_good"] = "truthful_bidder"
             \/ f["team_good"] \in FailingFiles /\ f["your_agent"] = "truthful_bidder"}
    /\ gm_pc = [phase |-> "uninit", idx |-> 0, round |-> 0]
    /\ agents = {}
    /\ budgets = <<>>
    /\ valuations = <<>>
    /\ items_won = <<>>
    /\ auction_log = <<>>
    /\ bids = <<>>
    /\ round_result = NoResult
    /\ loggers_disabled = FALSE
    /\ agent_metadata = <<>>
    /\ agent_states = <<>>
    /\ call = NoCall
    /\ worker = NoWorker
    /\ history = [t \in Teams |-> {}]
    /\ last_success = [t \in Teams |-> None]
    /\ faults = 0
    /\ host_exec = {}
    /\ test_agent = <<>>
    /\ team_results = <<>>

----------------------------------------------------------------------------
(* AgentManager.validate_agent *)

required_methods == <<"bidding_function", "update_after_each_round">>

required_attributes == <<"team_id", "valuation_vector", "budget">>

Names == {required_methods[i] : i \in 1..Len(required_methods)}
         \cup {required_attributes[i] : i \in 1..Len(required_attributes)}

\* an object: the names it has, each bound to a callable or to data
AgentObjects == UNION {[D -> {"callable", "data"}] : D \in SUBSET Names}

hasattr(agent, name) == name \in DOMAIN agent

callable(agent, name) == agent[name] = "callable"

RECURSIVE MethodsFrom(_, _)
\* for method_name in required_methods: ... return False
MethodsFrom(agent, i) ==
    IF i > Len(required_methods) THEN TRUE
    ELSE IF ~hasattr(agent, required_methods[i]) THEN FALSE
    ELSE IF ~callable(agent, required_methods[i]) THEN FALSE
    ELSE MethodsFrom(agent, i + 1)

RECURSIVE AttributesFrom_NoBudget(_, _)
\* the loop over required_attributes as it would be without 'budget'
AttributesFrom_NoBudget(agent, i) ==
    IF i > Len(required_attributes) - 1 THEN TRUE
    ELSE IF ~hasattr(agent, required_attributes[i]) THEN FALSE
    ELSE AttributesFrom_NoBudget(agent, i + 1)

RECURSIVE AttributesFrom(_, _)
\* for attr_name in required_attributes: ... return False
AttributesFrom(agent, i) ==
    IF i > Len(required_attributes) THEN TRUE
    ELSE IF ~hasattr(agent, required_attributes[i]) THEN FALSE
    ELSE AttributesFrom(agent, i + 1)

validate_agent(agent) ==
    IF ~MethodsFrom(agent, 1) THEN FALSE ELSE AttributesFrom(agent, 1)

----------------------------------------------------------------------------
(* GameManager.initialize_game and AgentManager.load_agent *)

\* initialize_game up to the agent loading loop
InitializeGame ==
    /\ gm_pc.phase = "uninit"
    /\ valuations' = fixed_valuations
    /\ budgets' = [t \in Teams |-> INITIAL_BUDGET]
    /\ items_won' = [t \in Teams |-> <<>>]
    /\ gm_pc' = [gm_pc EXCEPT !.phase = "loading", !.idx = 1]
    /\ UNCHANGED <<test_agent, team_results, start_method, team_agents, agents, auction_log, bids,
                   round_result, loggers_disabled, agent_metadata,
                   agent_states, call, worker, history, last_success,
                   faults>>
    /\ UNCHANGED host_exec

\* what the module-level code and constructor of a guest do while they
\* run in the host process
GuestLoadEffect(file, t, meta) ==
    IF file = "import_saboteur"
    THEN [u \in DOMAIN meta |->
            IF u = t THEN meta[u]
            ELSE [meta[u] EXCEPT !.valuation_vector = [i \in Items |-> 0]]]
    ELSE meta

\* test_agent = agent_class(team_id, valuation_vector, budget, opponent_teams)
AgentObject(file) ==
    LET D == IF file = "bad_shape" THEN Names \ {"budget"} ELSE Names
    IN  [n \in D |-> IF n \in {"bidding_function", "update_after_each_round"}
                     THEN "callable" ELSE "data"]

\* how load_agent ends for a file whose constructor gives the object agent:
\* it returns the proxy, returns None, lets an exception out, or never
\* returns
load_agent(file, agent) ==
    IF file = "missing_file" THEN "None"
    ELSE IF file = "import_hangs" THEN "blocked"
    ELSE IF file = "no_class" THEN "None"
    ELSE IF file = "ctor_raises" THEN "None"
    ELSE IF file = "ctor_exits" THEN "raised"
    ELSE IF ~validate_agent(agent) THEN "None"
    ELSE "proxy"

\* load_agent: TRUE iff the team was registered
LoadOk(file) == load_agent(file, AgentObject(file)) = "proxy"

\* Register as it would be if load_agent kept the state of a team it
\* already knows
Register_KeepsCheckpoint(t, file, agent) ==
    LET tampered == GuestLoadEffect(file, t, agent_metadata)
        record == [file_path |-> file, team_id |-> t,
                   valuation_vector |-> valuations[t],
                   budget |-> INITIAL_BUDGET,
                   opponent_teams |-> Opponents(t)]
    IN  /\ host_exec' = IF file = "missing_file" THEN host_exec
                        ELSE host_exec \cup {<<t, "load_agent">>}
        /\ IF load_agent(file, agent) = "proxy"
           THEN /\ agent_metadata' =
                     [u \in DOMAIN tampered \cup {t} |->
                        IF u = t THEN record ELSE tampered[u]]
                /\ agent_states' =
                     [u \in DOMAIN agent_states \cup {t} |->
                        IF u \in DOMAIN agent_states THEN agent_states[u]
                        ELSE None]
                /\ last_success' =
                     [last_success EXCEPT ![t] =
                        IF t \in DOMAIN agent_states THEN @ ELSE None]
           ELSE /\ agent_metadata' = tampered
                /\ UNCHANGED <<agent_states, last_success>>

\* Register as it would be if load_agent stored an empty state
Register_StoresEmptyState(t, file, agent) ==
    LET tampered == GuestLoadEffect(file, t, agent_metadata)
        record == [file_path |-> file, team_id |-> t,
                   valuation_vector |-> valuations[t],
                   budget |-> INITIAL_BUDGET,
                   opponent_teams |-> Opponents(t)]
    IN  /\ host_exec' = IF file = "missing_file" THEN host_exec
                        ELSE host_exec \cup {<<t, "load_agent">>}
        /\ IF load_agent(file, agent) = "proxy"
           THEN /\ agent_metadata' =
                     [u \in DOMAIN tampered \cup {t} |->
                        IF u = t THEN record ELSE tampered[u]]
                /\ agent_states' =
                     [u \in DOMAIN agent_states \cup {t} |->
                        IF u = t THEN Some({}) ELSE agent_states[u]]
                /\ last_success' = [last_success EXCEPT ![t] = None]
           ELSE /\ agent_metadata' = tampered
                /\ UNCHANGED <<agent_states, last_success>>

\* load_agent(file_path, team_id, valuation_vector, budget, opponent_teams)
\* where the constructor gives the object agent: what it leaves in the
\* AgentManager and in the host process
Register(t, file, agent) ==
    LET tampered == GuestLoadEffect(file, t, agent_metadata)
        record == [file_path |-> file, team_id |-> t,
                   valuation_vector |-> valuations[t],
                   budget |-> INITIAL_BUDGET,
                   opponent_teams |-> Opponents(t)]
    IN  /\ host_exec' = IF file = "missing_file" THEN host_exec
                        ELSE host_exec \cup {<<t, "load_agent">>}
        /\ IF load_agent(file, agent) = "proxy"
           THEN /\ agent_metadata' =
                     [u \in DOMAIN tampered \cup {t} |->
                        IF u = t THEN record ELSE tampered[u]]
                /\ agent_states' =
                     [u \in DOMAIN agent_states \cup {t} |->
                        IF u = t THEN None ELSE agent_states[u]]
                /\ last_success' = [last_success EXCEPT ![t] = None]
           ELSE /\ agent_metadata' = tampered
                /\ UNCHANGED <<agent_states, last_success>>

\* Load as it would be if initialize_game went on to the next team after a
\* load_agent that returned None
Load_SkipsFailedTeam(t, file, agent) ==
    LET outcome == load_agent(file, agent)
    IN  /\ Register(t, file, agent)
        /\ IF outcome = "proxy"
           THEN /\ agents' = agents \cup {t}
                /\ gm_pc' = IF gm_pc.idx = Len(TeamSeq)
                            THEN [gm_pc EXCEPT !.phase = "initialized", !.idx = 0]
                            ELSE [gm_pc EXCEPT !.idx = @ + 1]
           ELSE /\ gm_pc' = IF outcome = "None"
                            THEN IF gm_pc.idx = Len(TeamSeq)
                                 THEN [gm_pc EXCEPT !.phase = "initialized", !.idx = 0]
                                 ELSE [gm_pc EXCEPT !.idx = @ + 1]
                            ELSE [gm_pc EXCEPT
                                    !.phase = IF outcome = "raised" THEN "crashed"
                                              ELSE "blocked"]
                /\ UNCHANGED agents

\* agent = self.agent_manager.load_agent(...) and what initialize_game does
\* with its result
Load(t, file, agent) ==
    LET outcome == load_agent(file, agent)
    IN  /\ Register(t, file, agent)
        /\ IF outcome = "proxy"
           THEN /\ agents' = agents \cup {t}
                /\ gm_pc' = IF gm_pc.idx = Len(TeamSeq)
                            THEN [gm_pc EXCEPT !.phase = "initialized", !.idx = 0]
                            ELSE [gm_pc EXCEPT !.idx = @ + 1]
           ELSE /\ gm_pc' = [gm_pc EXCEPT
                               !.phase = CASE outcome = "None" -> "init_failed"
                                           [] outcome = "raised" -> "crashed"
                                           [] OTHER -> "blocked"]
                /\ UNCHANGED agents

\* one iteration of the loading loop of initialize_game
LoadAgent ==
    /\ gm_pc.phase = "loading"
    /\ Load(TeamSeq[gm_pc.idx], team_agents[TeamSeq[gm_pc.idx]],
            AgentObject(team_agents[TeamSeq[gm_pc.idx]]))
    /\ UNCHANGED <<test_agent, team_results, start_method, team_agents, budgets, valuations, items_won,
                   auction_log, bids, round_result, loggers_disabled, call,
                   worker, history, faults>>

----------------------------------------------------------------------------
(* AgentManager.execute_bid_with_timeout / update_agent_after_round:      *)
(* the host side of one call                                              *)

Record(t, outcome) ==
    [history EXCEPT ![t] = @ \cup {<<call.kind, call.item, outcome>>}]

\* the address space a new worker starts with
WorkerMem ==
    IF start_method = "fork"
    THEN [budgets |-> budgets, valuations |-> valuations,
          loggers_disabled |-> loggers_disabled]
    ELSE [budgets |-> <<>>, valuations |-> <<>>, loggers_disabled |-> FALSE]

\* agent_state = self.agent_states[team_id] with no state applied
CallState_Fresh(t) == None

\* agent_state read from the entry of the first team, whatever the team
CallState_Shared(t) ==
    IF TeamSeq[1] \in DOMAIN agent_states THEN agent_states[TeamSeq[1]]
    ELSE None

\* agent_state = self.agent_states[team_id]
CallState(t) == agent_states[t]

\* update_agent_after_round also skips a team whose bid of the round failed
UpdateSkips_AfterFailedBid(t, item) ==
    \/ ~agent_states[t].some
    \/ \E h \in history[t] : h[1] = "bid" /\ h[2] = item /\ h[3] # "success"

\* update_agent_after_round without the test for a missing state
UpdateSkips_Never(t, item) == FALSE

\* if agent_state is None: return False
UpdateSkips(t, item) == ~agent_states[t].some

\* the state is stored whatever the status of the result
StoresState_Always(msg) == TRUE

\* if status == 'success': self.agent_states[team_id] = new_state
StoresState(msg) == msg.status = "success"

\* mp.Process(target=..., args=(...)); process.start()
Spawn(t, kind, item, winner, price) ==
    [NoWorker EXCEPT
        !.status = "started",
        !.team = t,
        !.view = WorkerView(t, start_method, agent_metadata),
        !.mem = WorkerMem,
        !.args = [file_path |-> agent_metadata[t].file_path,
                  team_id |-> agent_metadata[t].team_id,
                  valuation_vector |-> agent_metadata[t].valuation_vector,
                  budget |-> agent_metadata[t].budget,
                  opponent_teams |-> agent_metadata[t].opponent_teams,
                  kind |-> kind, item_id |-> item,
                  winning_team |-> winner, price_paid |-> price,
                  agent_state |-> CallState(t)]]

\* execute_bid_with_timeout(agent, item_id) for the proxy of team t, up to
\* process.join(timeout)
execute_bid_with_timeout(t, item) ==
    IF t \notin DOMAIN agent_metadata
    THEN /\ call' = [NoCall EXCEPT !.kind = "bid", !.team = t,
                       !.item = item, !.pc = "returned",
                       !.ret = [bid |-> 0, error |-> "Agent not registered",
                                ok |-> FALSE]]
         /\ history' = [history EXCEPT ![t] = @ \cup
                          {<<"bid", item, "NotRegistered">>}]
         /\ UNCHANGED <<worker, faults>>
    ELSE \/ /\ call' = [NoCall EXCEPT !.kind = "bid", !.team = t,
                          !.item = item, !.pc = "join",
                          !.agent_state = CallState(t)]
            /\ worker' = Spawn(t, "bid", item, "", 0)
            /\ UNCHANGED <<history, faults>>
         \/ /\ faults < MaxFaults
            /\ faults' = faults + 1
            /\ call' = [NoCall EXCEPT !.kind = "bid", !.team = t,
                          !.item = item, !.pc = "returned",
                          !.agent_state = CallState(t),
                          !.ret = [bid |-> 0, error |-> "Exception",
                                   ok |-> FALSE]]
            /\ history' = [history EXCEPT ![t] = @ \cup
                             {<<"bid", item, "Failed">>}]
            /\ UNCHANGED worker

\* the bid call of the next team of the round
BidStart ==
    /\ gm_pc.phase = "bids"
    /\ call.kind = "none"
    /\ execute_bid_with_timeout(TeamSeq[gm_pc.idx], auction_sequence[gm_pc.round])
    /\ UNCHANGED <<test_agent, team_results, start_method, team_agents, gm_pc, agents, budgets,
                   valuations, items_won, auction_log, bids, round_result,
                   loggers_disabled, agent_metadata, agent_states,
                   last_success>>
    /\ UNCHANGED host_exec

\* update_agent_after_round(agent, item_id, winning_team, price_paid) for
\* the proxy of team t, up to process.join(timeout)
update_agent_after_round(t, item, winning_team, price_paid) ==
    LET fail(why) ==
           /\ call' = [NoCall EXCEPT !.kind = "update", !.team = t,
                         !.item = item, !.pc = "returned",
                         !.agent_state = IF why = "NotRegistered" THEN None
                                         ELSE CallState(t),
                         !.winner = winning_team,
                         !.price = price_paid,
                         !.ret = [bid |-> 0, error |-> why, ok |-> FALSE]]
           /\ history' = [history EXCEPT ![t] = @ \cup
                            {<<"update", item,
                               IF why = "Exception" THEN "Failed" ELSE why>>}]
    IN  IF t \notin DOMAIN agent_metadata
        THEN fail("NotRegistered") /\ UNCHANGED <<worker, faults>>
        ELSE IF UpdateSkips(t, item)
        THEN fail("NoState") /\ UNCHANGED <<worker, faults>>
        ELSE \/ /\ call' = [NoCall EXCEPT !.kind = "update", !.team = t,
                              !.item = item, !.pc = "join",
                              !.winner = winning_team,
                              !.price = price_paid,
                              !.agent_state = CallState(t)]
                /\ worker' = Spawn(t, "update", item, winning_team, price_paid)
                /\ UNCHANGED <<history, faults>>
             \/ /\ faults < MaxFaults
                /\ faults' = faults + 1
                /\ fail("Exception")
                /\ UNCHANGED worker

\* the update call of the next team of the round
UpdateStart ==
    /\ gm_pc.phase = "updates"
    /\ call.kind = "none"
    /\ update_agent_after_round(TeamSeq[gm_pc.idx],
                                auction_sequence[gm_pc.round],
                                round_result.winner_id, round_result.price_paid)
    /\ UNCHANGED <<test_agent, team_results, start_method, team_agents, gm_pc, agents, budgets,
                   valuations, items_won, auction_log, bids, round_result,
                   loggers_disabled, agent_metadata, agent_states,
                   last_success>>
    /\ UNCHANGED host_exec

callframe == <<start_method, team_agents, gm_pc, agents, budgets, valuations,
               items_won, auction_log, bids, round_result, loggers_disabled,
               agent_metadata, test_agent, team_results>>

\* the host variables a call may write
ckpt == <<agent_states, last_success>>

\* process.join(timeout=self.timeout_seconds) returns because the worker ended
JoinExit ==
    /\ call.pc = "join"
    /\ ~Alive(worker)
    /\ call' = [call EXCEPT !.pc = "check"]
    /\ UNCHANGED <<callframe, ckpt, worker, history, faults>>
    /\ UNCHANGED host_exec

\* process.join(timeout=self.timeout_seconds) returns because the time is up
JoinTimeout ==
    /\ call.pc = "join"
    /\ Alive(worker)
    /\ IF Blocked(worker) THEN UNCHANGED faults
       ELSE faults < MaxFaults /\ faults' = faults + 1
    /\ call' = [call EXCEPT !.pc = "check", !.waited = @ + timeout_seconds,
                            !.deadline_status = worker.status]
    /\ UNCHANGED <<callframe, ckpt, worker, history>>
    /\ UNCHANGED host_exec

\* CheckAlive as it would be if the worker were killed at the deadline
\* without a graceful stop
CheckAlive_KillsAtOnce ==
    /\ call.pc = "check"
    /\ IF Alive(worker)
       THEN /\ call' = [call EXCEPT !.pc = "grace", !.alive_at_check = TRUE]
            /\ worker' = [worker EXCEPT !.status = "killed"]
       ELSE /\ call' = [call EXCEPT !.pc = "get"]
            /\ UNCHANGED worker
    /\ UNCHANGED <<callframe, ckpt, history, faults>>
    /\ UNCHANGED host_exec

\* if process.is_alive(): process.terminate()
CheckAlive ==
    /\ call.pc = "check"
    /\ IF Alive(worker)
       THEN /\ call' = [call EXCEPT !.pc = "grace", !.alive_at_check = TRUE]
            /\ \E survives \in BOOLEAN :
                 worker' = IF survives
                           THEN [worker EXCEPT !.ignores_term = TRUE]
                           ELSE [worker EXCEPT !.status = "terminated"]
       ELSE /\ call' = [call EXCEPT !.pc = "get"]
            /\ UNCHANGED worker
    /\ UNCHANGED <<callframe, ckpt, history, faults>>
    /\ UNCHANGED host_exec

\* process.join(timeout=1.0)
GraceJoin ==
    /\ call.pc = "grace"
    /\ call' = IF Alive(worker)
               THEN [call EXCEPT !.pc = "check2", !.waited = @ + GraceWindow,
                                 !.grace_expired = TRUE]
               ELSE [call EXCEPT !.pc = "check2"]
    /\ UNCHANGED <<callframe, ckpt, worker, history, faults>>
    /\ UNCHANGED host_exec

\* KillAndReturn as it would be if a result found on the queue after the
\* timeout were stored
KillAndReturn_ReadsLateResult ==
    /\ call.pc = "check2"
    /\ worker' = IF Alive(worker) THEN [worker EXCEPT !.status = "killed"]
                 ELSE worker
    /\ call' = [call EXCEPT !.pc = "returned",
                  !.alive_after_grace = Alive(worker),
                  !.ret = [bid |-> 0, error |-> "Timeout", ok |-> FALSE]]
    /\ history' = Record(call.team, "Timeout")
    /\ agent_states' = IF worker.queue # <<>> /\ Head(worker.queue).status = "success"
                       THEN [agent_states EXCEPT ![call.team] =
                               Some(Head(worker.queue).new_state)]
                       ELSE agent_states
    /\ UNCHANGED <<callframe, last_success, faults>>
    /\ UNCHANGED host_exec

\* KillAndReturn as it would be if a bid found on the queue after the
\* timeout were returned
KillAndReturn_ReturnsLateBid ==
    /\ call.pc = "check2"
    /\ worker' = IF Alive(worker) THEN [worker EXCEPT !.status = "killed"]
                 ELSE worker
    /\ call' = [call EXCEPT !.pc = "returned",
                  !.alive_after_grace = Alive(worker),
                  !.ret = IF worker.queue # <<>> /\ Head(worker.queue).status = "success"
                          THEN [bid |-> Round2(Head(worker.queue).bid),
                                error |-> "None", ok |-> TRUE]
                          ELSE [bid |-> 0, error |-> "Timeout", ok |-> FALSE]]
    /\ history' = Record(call.team, "Timeout")
    /\ UNCHANGED <<callframe, ckpt, faults>>
    /\ UNCHANGED host_exec

\* KillAndReturn as it would be without process.kill()
KillAndReturn_LeavesWorkerRunning ==
    /\ call.pc = "check2"
    /\ UNCHANGED worker
    /\ call' = [call EXCEPT !.pc = "returned",
                  !.alive_after_grace = Alive(worker),
                  !.ret = [bid |-> 0, error |-> "Timeout", ok |-> FALSE]]
    /\ history' = Record(call.team, "Timeout")
    /\ UNCHANGED <<callframe, ckpt, faults>>
    /\ UNCHANGED host_exec

\* if process.is_alive(): process.kill(); return Timeout
KillAndReturn ==
    /\ call.pc = "check2"
    /\ worker' = IF Alive(worker) THEN [worker EXCEPT !.status = "killed"]
                 ELSE worker
    /\ call' = [call EXCEPT !.pc = "returned",
                  !.alive_after_grace = Alive(worker),
                  !.ret = [bid |-> 0, error |-> "Timeout", ok |-> FALSE]]
    /\ history' = Record(call.team, "Timeout")
    /\ UNCHANGED <<callframe, ckpt, faults>>
    /\ UNCHANGED host_exec

\* GetResult as it would be if the queue.Empty of a worker that left no
\* result were not caught
GetResult_RaisesOnEmptyQueue ==
    /\ call.pc = "get"
    /\ LET t == call.team IN
       IF worker.queue = <<>>
       THEN /\ call' = [call EXCEPT !.pc = "raised", !.waited = @ + 5]
            /\ gm_pc' = [gm_pc EXCEPT !.phase = "crashed"]
            /\ history' = Record(t, "Failed")
            /\ UNCHANGED <<ckpt, worker, host_exec>>
       ELSE LET msg == Head(worker.queue)
                new_state == loads(msg.new_state)
            IN
            /\ worker' = [worker EXCEPT !.queue = Tail(@)]
            /\ UNCHANGED gm_pc
            /\ host_exec' = IF RunsReduce(msg.new_state)
                            THEN host_exec \cup {<<t, "result_queue.get">>}
                            ELSE host_exec
            /\ IF StoresState(msg)
               THEN /\ agent_states' = [agent_states EXCEPT ![t] = Some(new_state)]
                    /\ last_success' = [last_success EXCEPT ![t] = Some(new_state)]
                    /\ call' = [call EXCEPT !.pc = "returned",
                                  !.ret = [bid |-> Round2(msg.bid),
                                           error |-> "None", ok |-> TRUE]]
                    /\ history' = Record(t, msg.status)
               ELSE /\ call' = [call EXCEPT !.pc = "returned",
                                  !.ret = [bid |-> 0, error |-> "Error",
                                           ok |-> FALSE]]
                    /\ history' = Record(t, "Failed")
                    /\ UNCHANGED ckpt
    /\ UNCHANGED <<start_method, team_agents, agents, budgets, valuations,
                   items_won, auction_log, bids, round_result,
                   loggers_disabled, agent_metadata, test_agent, team_results,
                   faults>>

\* result_queue.get(timeout=0.5) and the handling of the result
GetResult ==
    /\ call.pc = "get"
    /\ LET t == call.team IN
       IF worker.queue = <<>>
       THEN /\ call' = [call EXCEPT !.pc = "returned", !.waited = @ + 5,
                          !.ret = [bid |-> 0, error |-> "No result returned",
                                   ok |-> FALSE]]
            /\ history' = Record(t, "Failed")
            /\ UNCHANGED <<ckpt, worker, host_exec>>
       ELSE LET msg == Head(worker.queue)
                new_state == loads(msg.new_state)
            IN
            /\ worker' = [worker EXCEPT !.queue = Tail(@)]
            /\ host_exec' = IF RunsReduce(msg.new_state)
                            THEN host_exec \cup {<<t, "result_queue.get">>}
                            ELSE host_exec
            /\ IF StoresState(msg)
               THEN /\ agent_states' = [agent_states EXCEPT ![t] = Some(new_state)]
                    /\ last_success' = [last_success EXCEPT ![t] = Some(new_state)]
                    /\ call' = [call EXCEPT !.pc = "returned",
                                  !.ret = [bid |-> Round2(msg.bid),
                                           error |-> "None", ok |-> TRUE]]
                    /\ history' = Record(t, msg.status)
               ELSE /\ call' = [call EXCEPT !.pc = "returned",
                                  !.ret = [bid |-> 0, error |-> "Error",
                                           ok |-> FALSE]]
                    /\ history' = Record(t, "Failed")
                    /\ UNCHANGED ckpt
    /\ UNCHANGED <<callframe, faults>>

----------------------------------------------------------------------------
(* _worker_execute_bid / _worker_update_agent: the worker process *)

WorkerTag == <<worker.args.kind, worker.args.item_id>>

hostframe == <<callframe, ckpt, call, history>>

\* WorkerLoad as it would be if the stored state were not applied
WorkerLoad_NoRestore ==
    /\ worker.status = "started"
    /\ call.pc # "returned"
    /\ worker' = [worker EXCEPT
                    !.status = "constructed",
                    !.agent = {},
                    !.restored = worker.args.agent_state]
    /\ UNCHANGED <<hostframe, faults>>
    /\ UNCHANGED host_exec

\* load the module, construct the agent, restore its state
WorkerLoad ==
    /\ worker.status = "started"
    /\ call.pc # "returned"
    /\ worker' = [worker EXCEPT
                    !.status = "constructed",
                    !.agent = IF worker.args.agent_state.some
                              THEN worker.args.agent_state.d ELSE {},
                    !.restored = worker.args.agent_state]
    /\ UNCHANGED <<hostframe, faults>>
    /\ UNCHANGED host_exec

\* the module has no BiddingAgent, or loading / the constructor raises
WorkerLoadFail ==
    /\ worker.status = "started"
    /\ call.pc # "returned"
    /\ faults < MaxFaults
    /\ faults' = faults + 1
    /\ \E e \in {"No BiddingAgent class found", "exception"} :
         worker' = [worker EXCEPT
                      !.status = "put",
                      !.queue = <<[status |-> "error", bid |-> 0,
                                   new_state |-> {}, error |-> e]>>]
    /\ UNCHANGED hostframe
    /\ UNCHANGED host_exec

\* WorkerRun as it would be if the guest ran in the host's address space
WorkerRun_SharedMemory ==
    /\ worker.status = "constructed"
    /\ call.pc # "returned"
    /\ LET a == worker.args
           m == IF a.kind = "bid"
                THEN GuestWrites(a.file_path, a.team_id, worker.mem)
                ELSE worker.mem
       IN
       /\ worker' = [worker EXCEPT
                    !.status = "ran",
                    !.op_invoked = TRUE,
                    !.agent = @ \cup {<<a.kind, a.item_id>>}
                                \cup GuestFields(a.file_path, a.kind),
                    !.mem = m,
                    !.raw_bid = IF a.kind = "bid"
                                THEN GuestBid(a.file_path, a.team_id, a.item_id,
                                              a.valuation_vector, worker.mem)
                                ELSE 0]
       /\ budgets' = IF m.budgets # <<>> THEN m.budgets ELSE budgets
       /\ loggers_disabled' = m.loggers_disabled
    /\ UNCHANGED <<test_agent, team_results, start_method, team_agents, gm_pc, agents, valuations,
                   items_won, auction_log, bids, round_result,
                   agent_metadata, ckpt, call, history, faults>>
    /\ UNCHANGED host_exec

\* agent.bidding_function(item_id) / agent.update_after_each_round(...)
WorkerRun ==
    /\ worker.status = "constructed"
    /\ call.pc # "returned"
    /\ LET a == worker.args IN
       worker' = [worker EXCEPT
                    !.status = "ran",
                    !.op_invoked = TRUE,
                    !.agent = @ \cup {WorkerTag}
                                \cup GuestFields(a.file_path, a.kind),
                    !.mem = IF a.kind = "bid"
                            THEN GuestWrites(a.file_path, a.team_id, @)
                            ELSE @,
                    !.raw_bid = IF a.kind = "bid"
                                THEN GuestBid(a.file_path, a.team_id, a.item_id,
                                              a.valuation_vector, worker.mem)
                                ELSE 0]
    /\ UNCHANGED <<hostframe, faults>>
    /\ UNCHANGED host_exec

\* the guest operation changes the agent and then raises
WorkerRaise ==
    /\ worker.status = "constructed"
    /\ call.pc # "returned"
    /\ faults < MaxFaults
    /\ faults' = faults + 1
    /\ worker' = [worker EXCEPT
                    !.status = "put",
                    !.op_invoked = TRUE,
                    !.agent = @ \cup {WorkerTag},
                    !.queue = <<[status |-> "error", bid |-> 0,
                                 new_state |-> {}, error |-> "exception"]>>]
    /\ UNCHANGED hostframe
    /\ UNCHANGED host_exec

\* WorkerPut as it would be if pickle.dumps(value) were not inside a try:
\* the exception reaches the worker's handler, which puts an error
WorkerPut_RaisesOnUnpicklable ==
    /\ worker.status = "ran"
    /\ call.pc # "returned"
    /\ worker' = [worker EXCEPT
                    !.status = "put",
                    !.queue =
                       IF \A f \in worker.agent :
                             startswith_underscore(f) \/ callable_value(f)
                                \/ dumps_ok(f)
                       THEN <<[status |-> "success", bid |-> worker.raw_bid,
                               new_state |-> Serialize(worker.agent),
                               error |-> "None"]>>
                       ELSE <<[status |-> "error", bid |-> 0,
                               new_state |-> {}, error |-> "exception"]>>]
    /\ UNCHANGED <<hostframe, faults>>
    /\ UNCHANGED host_exec

\* serialize the agent's fields and put the success result on the queue
WorkerPut ==
    /\ worker.status = "ran"
    /\ call.pc # "returned"
    /\ worker' = [worker EXCEPT
                    !.status = "put",
                    !.queue = <<[status |-> "success", bid |-> worker.raw_bid,
                                 new_state |-> Serialize(worker.agent),
                                 error |-> "None"]>>]
    /\ UNCHANGED <<hostframe, faults>>
    /\ UNCHANGED host_exec

\* the worker function returns and the process ends
WorkerExit ==
    /\ worker.status = "put"
    /\ ~Blocked(worker)
    /\ call.pc # "returned"
    /\ worker' = [worker EXCEPT !.status = "exited"]
    /\ UNCHANGED <<hostframe, faults>>
    /\ UNCHANGED host_exec

\* the guest ends the process without a result (os._exit, crash)
WorkerCrash ==
    /\ worker.status \in {"started", "constructed", "ran"}
    /\ call.pc # "returned"
    /\ faults < MaxFaults
    /\ faults' = faults + 1
    /\ worker' = [worker EXCEPT !.status = "exited"]
    /\ UNCHANGED hostframe
    /\ UNCHANGED host_exec

----------------------------------------------------------------------------
(* GameManager.run_game and GameManager.execute_auction_round *)

gmframe == <<start_method, team_agents, agents, valuations, loggers_disabled,
             agent_states, history, last_success, faults, test_agent, team_results>>

\* the 'your_agent' block at the start of execute_auction_round: the
\* module is loaded, BiddingAgent constructed and the stored state applied
\* in the host process
ShowClassification ==
    IF "your_agent" \in agents /\ "your_agent" \in DOMAIN agent_metadata
    THEN /\ host_exec' = host_exec \cup {<<"your_agent", "execute_auction_round">>}
         /\ agent_metadata' =
               GuestLoadEffect(agent_metadata["your_agent"].file_path,
                               "your_agent", agent_metadata)
    ELSE UNCHANGED <<host_exec, agent_metadata>>

\* run_game enters the round loop
StartGame ==
    /\ gm_pc.phase = "initialized"
    /\ gm_pc' = [phase |-> "bids", idx |-> 1, round |-> 1]
    /\ bids' = <<>>
    /\ ShowClassification
    /\ UNCHANGED <<gmframe, budgets, items_won, auction_log, round_result,
                   call, worker>>

\* CollectBid as it would be if the state of a team whose bid failed were
\* dropped
CollectBid_ResetsFailedAgent ==
    /\ gm_pc.phase = "bids"
    /\ call.kind = "bid"
    /\ call.pc = "returned"
    /\ bids' = [u \in DOMAIN bids \cup {call.team} |->
                  IF u = call.team THEN call.ret.bid ELSE bids[u]]
    /\ gm_pc' = IF gm_pc.idx = Len(TeamSeq)
                THEN [gm_pc EXCEPT !.phase = "settle", !.idx = 0]
                ELSE [gm_pc EXCEPT !.idx = @ + 1]
    /\ call' = NoCall
    /\ worker' = NoWorker
    /\ agent_states' = IF call.ret.ok THEN agent_states
                       ELSE [agent_states EXCEPT ![call.team] = None]
    /\ UNCHANGED <<test_agent, team_results, start_method, team_agents, agents, valuations,
                   loggers_disabled, agent_metadata, history, last_success,
                   faults, budgets, items_won, auction_log, round_result>>
    /\ UNCHANGED host_exec

\* CollectBid as it would be if settlement ran as soon as the first bid
\* call returned
CollectBid_SettlesEarly ==
    /\ gm_pc.phase = "bids"
    /\ call.kind = "bid"
    /\ call.pc = "returned"
    /\ bids' = [u \in DOMAIN bids \cup {call.team} |->
                  IF u = call.team THEN call.ret.bid ELSE bids[u]]
    /\ gm_pc' = [gm_pc EXCEPT !.phase = "settle", !.idx = 0]
    /\ call' = NoCall
    /\ worker' = NoWorker
    /\ UNCHANGED <<gmframe, budgets, items_won, auction_log, round_result>>
    /\ UNCHANGED <<host_exec, agent_metadata>>

\* CollectBid as it would be if a failed bid call were issued again
CollectBid_RetriesFailedBid ==
    /\ gm_pc.phase = "bids"
    /\ call.kind = "bid"
    /\ call.pc = "returned"
    /\ bids' = [u \in DOMAIN bids \cup {call.team} |->
                  IF u = call.team THEN call.ret.bid ELSE bids[u]]
    /\ gm_pc' = IF ~call.ret.ok THEN gm_pc
                ELSE IF gm_pc.idx = Len(TeamSeq)
                THEN [gm_pc EXCEPT !.phase = "settle", !.idx = 0]
                ELSE [gm_pc EXCEPT !.idx = @ + 1]
    /\ call' = NoCall
    /\ worker' = NoWorker
    /\ UNCHANGED <<gmframe, budgets, items_won, auction_log, round_result>>
    /\ UNCHANGED <<host_exec, agent_metadata>>

\* bids[team_id] = bid for the call that just returned
CollectBid ==
    /\ gm_pc.phase = "bids"
    /\ call.kind = "bid"
    /\ call.pc = "returned"
    /\ bids' = [u \in DOMAIN bids \cup {call.team} |->
                  IF u = call.team THEN call.ret.bid ELSE bids[u]]
    /\ gm_pc' = IF gm_pc.idx = Len(TeamSeq)
                THEN [gm_pc EXCEPT !.phase = "settle", !.idx = 0]
                ELSE [gm_pc EXCEPT !.idx = @ + 1]
    /\ call' = NoCall
    /\ worker' = NoWorker
    /\ UNCHANGED <<gmframe, budgets, items_won, auction_log, round_result>>
    /\ UNCHANGED <<host_exec, agent_metadata>>

\* Settle as it would be if the item were recorded for every team
Settle_RecordsItemForAll ==
    /\ gm_pc.phase = "settle"
    /\ LET rr == execute_round(gm_pc.round, auction_sequence[gm_pc.round],
                               bids, budgets)
       IN  /\ round_result' = rr
           /\ IF rr.winner_id # ""
              THEN /\ budgets' = [budgets EXCEPT ![rr.winner_id] = @ - rr.price_paid]
                   /\ items_won' = [t \in DOMAIN items_won |->
                                       Append(items_won[t], rr.item_id)]
              ELSE UNCHANGED <<budgets, items_won>>
    /\ gm_pc' = [gm_pc EXCEPT !.phase = "updates", !.idx = 1]
    /\ UNCHANGED <<gmframe, auction_log, bids, call, worker>>
    /\ UNCHANGED <<host_exec, agent_metadata>>

\* Settle as it would be if the price were added to the winner's budget
Settle_CreditsWinner ==
    /\ gm_pc.phase = "settle"
    /\ LET rr == execute_round(gm_pc.round, auction_sequence[gm_pc.round],
                               bids, budgets)
       IN  /\ round_result' = rr
           /\ IF rr.winner_id # ""
              THEN /\ budgets' = [budgets EXCEPT ![rr.winner_id] = @ + rr.price_paid]
                   /\ items_won' = [items_won EXCEPT ![rr.winner_id] =
                                       Append(@, rr.item_id)]
              ELSE UNCHANGED <<budgets, items_won>>
    /\ gm_pc' = [gm_pc EXCEPT !.phase = "updates", !.idx = 1]
    /\ UNCHANGED <<gmframe, auction_log, bids, call, worker>>
    /\ UNCHANGED <<host_exec, agent_metadata>>

\* Settle as it would be if the winner were debited its own bid
Settle_DebitsBid ==
    /\ gm_pc.phase = "settle"
    /\ LET rr == execute_round(gm_pc.round, auction_sequence[gm_pc.round],
                               bids, budgets)
       IN  /\ round_result' = rr
           /\ IF rr.winner_id # ""
              THEN /\ budgets' = [budgets EXCEPT ![rr.winner_id] =
                                       @ - Clip(bids[rr.winner_id], @)]
                   /\ items_won' = [items_won EXCEPT ![rr.winner_id] =
                                       Append(@, rr.item_id)]
              ELSE UNCHANGED <<budgets, items_won>>
    /\ gm_pc' = [gm_pc EXCEPT !.phase = "updates", !.idx = 1]
    /\ UNCHANGED <<gmframe, auction_log, bids, call, worker>>
    /\ UNCHANGED <<host_exec, agent_metadata>>

\* auction_engine.execute_round and the update of budgets and items_won
Settle ==
    /\ gm_pc.phase = "settle"
    /\ LET rr == execute_round(gm_pc.round, auction_sequence[gm_pc.round],
                               bids, budgets)
       IN  /\ round_result' = rr
           /\ IF rr.winner_id # ""
              THEN /\ budgets' = [budgets EXCEPT ![rr.winner_id] = @ - rr.price_paid]
                   /\ items_won' = [items_won EXCEPT ![rr.winner_id] =
                                       Append(@, rr.item_id)]
              ELSE UNCHANGED <<budgets, items_won>>
    /\ gm_pc' = [gm_pc EXCEPT !.phase = "updates", !.idx = 1]
    /\ UNCHANGED <<gmframe, auction_log, bids, call, worker>>
    /\ UNCHANGED <<host_exec, agent_metadata>>

\* the update call of one team returned; its result is not used
CollectUpdate ==
    /\ gm_pc.phase = "updates"
    /\ call.kind = "update"
    /\ call.pc = "returned"
    /\ gm_pc' = IF gm_pc.idx = Len(TeamSeq)
                THEN [gm_pc EXCEPT !.phase = "append", !.idx = 0]
                ELSE [gm_pc EXCEPT !.idx = @ + 1]
    /\ call' = NoCall
    /\ worker' = NoWorker
    /\ UNCHANGED <<gmframe, budgets, items_won, auction_log, bids, round_result>>
    /\ UNCHANGED <<host_exec, agent_metadata>>

\* AppendLog as it would be if the loop were range(1, T_AUCTION_ROUNDS)
AppendLog_EndsEarly ==
    /\ gm_pc.phase = "append"
    /\ auction_log' = Append(auction_log, round_result)
    /\ round_result' = NoResult
    /\ bids' = <<>>
    /\ gm_pc' = IF gm_pc.round >= T_AUCTION_ROUNDS - 1
                THEN [gm_pc EXCEPT !.phase = "results"]
                ELSE [phase |-> "bids", idx |-> 1, round |-> gm_pc.round + 1]
    /\ IF gm_pc.round >= T_AUCTION_ROUNDS - 1
       THEN UNCHANGED <<host_exec, agent_metadata>>
       ELSE ShowClassification
    /\ UNCHANGED <<gmframe, budgets, items_won, call, worker>>

\* self.auction_log.append(round_result); next round or final results
AppendLog ==
    /\ gm_pc.phase = "append"
    /\ auction_log' = Append(auction_log, round_result)
    /\ round_result' = NoResult
    /\ bids' = <<>>
    /\ gm_pc' = IF gm_pc.round = T_AUCTION_ROUNDS
                THEN [gm_pc EXCEPT !.phase = "results"]
                ELSE [phase |-> "bids", idx |-> 1, round |-> gm_pc.round + 1]
    /\ IF gm_pc.round = T_AUCTION_ROUNDS
       THEN UNCHANGED <<host_exec, agent_metadata>>
       ELSE ShowClassification
    /\ UNCHANGED <<gmframe, budgets, items_won, call, worker>>

RECURSIVE Sum(_, _)
\* sum(f[x] for x in xs)
Sum(f, xs) == IF xs = <<>> THEN 0 ELSE f[Head(xs)] + Sum(f, Tail(xs))

\* utility as it would be if the spending were left out
Utility_IgnoresSpending(total_valuation_won, budget_spent) ==
    total_valuation_won

\* utility = total_valuation_won - budget_spent
Utility(total_valuation_won, budget_spent) ==
    total_valuation_won - budget_spent

\* _calculate_final_results, and run_game returns the GameResult
FinalResults ==
    /\ gm_pc.phase = "results"
    /\ team_results' =
          [t \in agents |->
             LET total_valuation_won == Sum(valuations[t], items_won[t])
                 budget_spent == INITIAL_BUDGET - budgets[t]
             IN  [utility |-> Utility(total_valuation_won, budget_spent),
                  budget_spent |-> budget_spent,
                  budget_remaining |-> budgets[t],
                  items_won |-> items_won[t],
                  total_valuation_won |-> total_valuation_won]]
    /\ gm_pc' = [gm_pc EXCEPT !.phase = "completed"]
    /\ UNCHANGED <<start_method, team_agents, agents, budgets, valuations,
                   items_won, auction_log, bids, round_result,
                   loggers_disabled, agent_metadata, agent_states, call,
                   worker, history, last_success, faults, host_exec,
                   test_agent>>

----------------------------------------------------------------------------

Next ==
    \/ InitializeGame
    \/ LoadAgent
    \/ StartGame
    \/ BidStart
    \/ UpdateStart
    \/ JoinExit
    \/ JoinTimeout
    \/ CheckAlive
    \/ GraceJoin
    \/ KillAndReturn
    \/ GetResult
    \/ WorkerLoad
    \/ WorkerLoadFail
    \/ WorkerRun
    \/ WorkerRaise
    \/ WorkerPut
    \/ WorkerExit
    \/ WorkerCrash
    \/ CollectBid
    \/ Settle
    \/ CollectUpdate
    \/ AppendLog
    \/ FinalResults

Spec == Init /\ [][Next]_vars

\* the host process and a live worker keep being scheduled, and the
\* timeouts of join and get expire
FairSpec == Spec /\ WF_vars(Next)

----------------------------------------------------------------------------
(* Registration of objects of every shape: the two teams' files exist and  *)
(* define BiddingAgent, and their constructor gives the object test_agent  *)

InitValidate ==
    /\ start_method \in StartMethods
    /\ team_agents = [t \in Teams |-> "truthful_bidder"]
    /\ gm_pc = [phase |-> "uninit", idx |-> 0, round |-> 0]
    /\ agents = {}
    /\ budgets = <<>>
    /\ valuations = <<>>
    /\ items_won = <<>>
    /\ auction_log = <<>>
    /\ bids = <<>>
    /\ round_result = NoResult
    /\ loggers_disabled = FALSE
    /\ agent_metadata = <<>>
    /\ agent_states = <<>>
    /\ call = NoCall
    /\ worker = NoWorker
    /\ history = [t \in Teams |-> {}]
    /\ last_success = [t \in Teams |-> None]
    /\ faults = 0
    /\ host_exec = {}
    /\ test_agent \in AgentObjects
    /\ team_results = <<>>

\* one iteration of the loading loop for a constructor that gives test_agent
ProbeLoad ==
    /\ gm_pc.phase = "loading"
    /\ Load(TeamSeq[gm_pc.idx], team_agents[TeamSeq[gm_pc.idx]], test_agent)
    /\ UNCHANGED <<test_agent, team_results, start_method, team_agents, budgets, valuations, items_won,
                   auction_log, bids, round_result, loggers_disabled, call,
                   worker, history, faults>>

NextValidate ==
    \/ InitializeGame
    \/ ProbeLoad

SpecValidate == InitValidate /\ [][NextValidate]_vars

----------------------------------------------------------------------------
(* One AgentManager driven directly, as tests/test_security.py drives it:  *)
(* load_agent, execute_bid_with_timeout and update_agent_after_round in    *)
(* any order, a team being loaded again after it has made calls            *)

\* number of operations the client issues
MaxOps == 4

\* the files the client loads, the last of which fails to load
ClientFiles == {"truthful_bidder", "module_saboteur", "ctor_raises"}

\* the item the client's calls are for
ClientItems == {auction_sequence[1]}

InitManager ==
    /\ start_method \in StartMethods
    /\ team_agents = [t \in Teams |-> "truthful_bidder"]
    /\ gm_pc = [phase |-> "client", idx |-> 0, round |-> 0]
    /\ agents = {}
    /\ budgets = <<>>
    /\ valuations = fixed_valuations
    /\ items_won = <<>>
    /\ auction_log = <<>>
    /\ bids = <<>>
    /\ round_result = NoResult
    /\ loggers_disabled = FALSE
    /\ agent_metadata = <<>>
    /\ agent_states = <<>>
    /\ call = NoCall
    /\ worker = NoWorker
    /\ history = [t \in Teams |-> {}]
    /\ last_success = [t \in Teams |-> None]
    /\ faults = 0
    /\ host_exec = {}
    /\ test_agent = <<>>
    /\ team_results = <<>>

\* the client may issue its next operation
ClientReady ==
    /\ gm_pc.phase = "client"
    /\ gm_pc.idx < MaxOps
    /\ call.kind = "none"

clientframe == <<test_agent, team_results, start_method, team_agents,
                 budgets, valuations, items_won, auction_log, bids,
                 round_result, loggers_disabled>>

\* agent = agent_manager.load_agent(file, t, ...)
ClientLoad ==
    /\ ClientReady
    /\ \E t \in Teams : \E file \in ClientFiles :
          /\ Register(t, file, AgentObject(file))
          /\ agents' = IF LoadOk(file) THEN agents \cup {t} ELSE agents
    /\ gm_pc' = [gm_pc EXCEPT !.idx = @ + 1]
    /\ UNCHANGED <<clientframe, call, worker, history, faults>>

\* agent_manager.execute_bid_with_timeout(agent, item)
ClientBid ==
    /\ ClientReady
    /\ \E t \in agents : \E item \in ClientItems :
          execute_bid_with_timeout(t, item)
    /\ gm_pc' = [gm_pc EXCEPT !.idx = @ + 1]
    /\ UNCHANGED <<clientframe, agents, agent_metadata, agent_states,
                   last_success, host_exec>>

\* agent_manager.update_agent_after_round(agent, item, 'team_other', 5.0)
ClientUpdate ==
    /\ ClientReady
    /\ \E t \in agents : \E item \in ClientItems :
          update_agent_after_round(t, item, TeamSeq[1], 500)
    /\ gm_pc' = [gm_pc EXCEPT !.idx = @ + 1]
    /\ UNCHANGED <<clientframe, agents, agent_metadata, agent_states,
                   last_success, host_exec>>

\* the call returned to the client
ClientTake ==
    /\ gm_pc.phase = "client"
    /\ call.pc = "returned"
    /\ call' = NoCall
    /\ worker' = NoWorker
    /\ UNCHANGED <<clientframe, gm_pc, agents, agent_metadata, agent_states,
                   last_success, host_exec, history, faults>>

NextManager ==
    \/ ClientLoad
    \/ ClientBid
    \/ ClientUpdate
    \/ ClientTake
    \/ JoinExit
    \/ JoinTimeout
    \/ CheckAlive
    \/ GraceJoin
    \/ KillAndReturn
    \/ GetResult
    \/ WorkerLoad
    \/ WorkerLoadFail
    \/ WorkerRun
    \/ WorkerRaise
    \/ WorkerPut
    \/ WorkerExit
    \/ WorkerCrash

SpecManager == InitManager /\ [][NextManager]_vars

TypeOK ==
    /\ gm_pc.phase \in {"uninit", "loading", "init_failed", "crashed",
                        "blocked", "initialized",
                        "bids", "settle", "updates", "append", "results",
                        "completed"}
    /\ faults \in 0..MaxFaults
    /\ \A t \in DOMAIN budgets : budgets[t] \in 0..INITIAL_BUDGET

----------------------------------------------------------------------------
(* Properties *)

OwnObjects(t) == {<<"valuation_vector", t>>, <<"agent_state", t>>}

\* C1: the guest code of a call for team A can observe no object of the
\* host or of another team (budgets and valuations of the GameManager,
\* valuation vectors and states of other teams), even by enumerating its
\* process memory, and the bid it returns does not depend on them.
C1_GuestSeesOnlyOwnObjects ==
    worker.status # "none" =>
        /\ worker.view \subseteq OwnObjects(worker.team)
        /\ worker.mem.budgets = <<>>
        /\ worker.mem.valuations = <<>>
        /\ (worker.args.kind = "bid" /\ worker.queue # <<>>
              /\ Head(worker.queue).status = "success")
            => Head(worker.queue).bid =
                  GuestBid(worker.args.file_path, worker.args.team_id,
                           worker.args.item_id, worker.args.valuation_vector,
                           NoWorker.mem)

Registered(t) ==
    [file_path |-> team_agents[t], team_id |-> t,
     valuation_vector |-> fixed_valuations[t], budget |-> INITIAL_BUDGET,
     opponent_teams |-> Opponents(t)]

\* C3: a call for team B runs B's registered code with B's constructor
\* arguments whatever the guest code of another team did at registration
\* or in an earlier call.
C3_OtherTeamsCannotAlterACall ==
    /\ \A t \in DOMAIN agent_metadata : agent_metadata[t] = Registered(t)
    /\ worker.status # "none" =>
         [f \in DOMAIN Registered(worker.team) |-> worker.args[f]]
            = Registered(worker.team)

InRound == gm_pc.phase \in {"bids", "updates"}

\* the worker constructed the agent and applied the state it was given
Past(w) == w.status = "constructed" \/ w.op_invoked

\* C4: when a bid or update call times out, the team's state after the call
\* equals its state before the call, and no later call sees a change the
\* guest made during a timed-out call.
C4_TimeoutKeepsState ==
    /\ (call.pc = "returned" /\ call.ret.error = "Timeout")
          => agent_states[call.team] = call.agent_state
    /\ \A t \in DOMAIN agent_states : \A h \in history[t] :
          h[3] = "Timeout" =>
            /\ <<h[1], h[2]>> \notin agent_states[t].d
            /\ (worker.status # "none" /\ worker.team = t)
                  => <<h[1], h[2]>> \notin worker.restored.d

C4_Witness ==
    /\ call.pc = "returned"
    /\ call.ret.error = "Timeout"
    /\ call.agent_state.some
    /\ worker.op_invoked
    /\ <<call.kind, call.item>> \in worker.agent
    /\ worker.queue # <<>>

\* C5: a team's state is replaced only when the team's own call takes a
\* success result of its worker from the queue; every call that returns a
\* failure leaves the state as it was.
C5_StateReplacedOnlyOnSuccess ==
    [][InRound =>
        /\ \A t \in DOMAIN agent_states :
              agent_states'[t] # agent_states[t] =>
                 /\ call.team = t
                 /\ call.pc = "get"
                 /\ worker.queue # <<>>
                 /\ Head(worker.queue).status = "success"
                 /\ call'.ret.ok
        /\ (call'.pc = "returned" /\ ~call'.ret.ok
              /\ call'.team \in DOMAIN agent_states)
             => agent_states'[call'.team] = call'.agent_state]_vars

C5_Witness ==
    /\ call.pc = "returned"
    /\ call.ret.error = "Error"
    /\ call.agent_state.some
    /\ worker.op_invoked
    /\ agent_states[call.team] = call.agent_state

\* C6: the state applied to the freshly constructed agent at the start of a
\* call is the state stored after the team's last successful call (none if
\* there was no successful call); failed calls in between do not change it.
C6_StateContinuity ==
    (worker.status # "none" /\ Past(worker) /\ call.pc # "returned")
        => worker.restored = last_success[worker.team]

CallOrder(kind, item) ==
    2 * (T_AUCTION_ROUNDS + 1 - item) + (IF kind = "update" THEN 1 ELSE 0)

C6_Witness ==
    /\ worker.status = "constructed"
    /\ worker.restored.some
    /\ \E h \in history[worker.team] : \E g \in history[worker.team] :
          /\ g[3] = "success"
          /\ h[3] \in {"Timeout", "Failed"}
          /\ CallOrder(g[1], g[2]) < CallOrder(h[1], h[2])

\* C7: a team whose round-3 bid call timed out (its round-2 update having
\* stored a state) still gets its round-3 update call with the item, winner
\* and price of round 3, and the state applied in its round-4 bid call
\* descends from the round-2 update and holds nothing of the round-3 bid.
C7_TimeoutInRoundThree ==
    T_AUCTION_ROUNDS >= 4 =>
    \A t \in Teams :
       (/\ <<"bid", auction_sequence[3], "Timeout">> \in history[t]
        /\ <<"update", auction_sequence[2], "success">> \in history[t])
       =>
        /\ ((gm_pc.round = 3 /\ gm_pc.phase = "append") \/ gm_pc.round > 3)
             => \E h \in history[t] :
                   /\ h[1] = "update" /\ h[2] = auction_sequence[3]
                   /\ h[3] \notin {"NoState", "NotRegistered"}
        /\ (call.kind = "update" /\ call.team = t
              /\ call.item = auction_sequence[3])
             => /\ call.winner = round_result.winner_id
                /\ call.price = round_result.price_paid
                /\ round_result.round_number = 3
                /\ worker.status # "none" =>
                     /\ worker.args.item_id = round_result.item_id
                     /\ worker.args.winning_team = round_result.winner_id
                     /\ worker.args.price_paid = round_result.price_paid
        /\ (worker.status # "none" /\ Past(worker) /\ worker.team = t
              /\ worker.args.kind = "bid"
              /\ worker.args.item_id = auction_sequence[4])
             => /\ <<"update", auction_sequence[2]>> \in worker.restored.d
                /\ <<"bid", auction_sequence[3]>> \notin worker.restored.d
                /\ <<"bid", auction_sequence[3]>> \notin worker.agent

C7_Witness ==
    /\ T_AUCTION_ROUNDS >= 4
    /\ worker.status = "constructed"
    /\ worker.args.kind = "bid"
    /\ worker.args.item_id = auction_sequence[4]
    /\ <<"bid", auction_sequence[3], "Timeout">> \in history[worker.team]
    /\ <<"update", auction_sequence[2], "success">> \in history[worker.team]
    /\ <<"update", auction_sequence[3]>> \in worker.restored.d

\* C8: in every round the guest's update operation is invoked for every
\* team after settlement, also for a team whose bid call failed and that
\* never had a successful call.
C8_UpdateInvokedForEveryTeam ==
    gm_pc.phase = "append" =>
        \A t \in agents : \E h \in history[t] :
            /\ h[1] = "update"
            /\ h[2] = auction_sequence[gm_pc.round]
            /\ h[3] \notin {"NoState", "NotRegistered"}

\* C9 as stated: within one round a team's state changes at most once.
C9_OneChangePerRound ==
    [][InRound =>
        \A t \in DOMAIN agent_states :
           agent_states'[t] # agent_states[t] =>
              ~ \E h \in history[t] :
                   h[2] = auction_sequence[gm_pc.round] /\ h[3] = "success"]_vars

\* C9: within one round a team's state changes at most twice: at most once
\* in its bid call and at most once in its update call, each time when the
\* call takes its success result.
C9_OneChangePerCall ==
    [][InRound =>
        \A t \in DOMAIN agent_states :
           agent_states'[t] # agent_states[t] =>
              /\ call.team = t
              /\ call.pc = "get"
              /\ ~ \E h \in history[t] :
                   /\ h[1] = call.kind
                   /\ h[2] = auction_sequence[gm_pc.round]
                   /\ h[3] = "success"]_vars

C9_Witness ==
    /\ call.kind = "update"
    /\ call.pc = "returned"
    /\ call.ret.ok
    /\ <<"bid", call.item, "success">> \in history[call.team]
    /\ <<"bid", call.item>> \in call.agent_state.d
    /\ agent_states[call.team] # call.agent_state

\* C10 as stated: a bid call whose guest operation is still running when
\* the deadline expires returns bid 0 with error Timeout, within the
\* deadline plus the grace window.
C10_TimeoutWhenRunningAtDeadline ==
    (call.kind = "bid" /\ call.pc = "returned"
       /\ call.deadline_status = "constructed")
      => /\ call.ret.bid = 0
         /\ call.ret.error = "Timeout"
         /\ call.waited <= timeout_seconds + GraceWindow

\* C10: a bid call whose worker is still alive when the host checks it
\* after the deadline returns bid 0 with error Timeout, within the deadline
\* plus the grace window.
C10_TimeoutWhenAliveAtCheck ==
    (call.kind = "bid" /\ call.pc = "returned" /\ call.alive_at_check)
      => /\ call.ret.bid = 0
         /\ call.ret.error = "Timeout"
         /\ call.waited <= timeout_seconds + GraceWindow

C10_Witness ==
    /\ call.kind = "bid"
    /\ call.pc = "returned"
    /\ call.deadline_status = "constructed"
    /\ call.alive_at_check
    /\ worker.status = "killed"
    /\ call.ret.error = "Timeout"
    /\ call.waited = timeout_seconds + GraceWindow

\* C11: every host operation that runs guest code returns: the loading
\* loop of initialize_game ends (registered, failed or raised), every bid
\* and update call returns, and every round reaches the append of its
\* result, also when guest code never terminates.
C11_HostNeverBlocks ==
    /\ (gm_pc.phase = "loading")
          ~> (gm_pc.phase \in {"initialized", "init_failed", "crashed"})
    /\ (call.kind # "none") ~> (call.pc = "returned")
    /\ (gm_pc.phase \in {"bids", "settle", "updates"})
          ~> (gm_pc.phase = "append")

\* the transitions of a call's worker: Running -> StopRequested -> Killed
TerminationOrder ==
    /\ call.alive_at_check => call.deadline_status # ""
    /\ (worker.status = "terminated" \/ worker.ignores_term)
          => call.alive_at_check
    /\ call.grace_expired => call.alive_at_check
    /\ worker.status = "killed"
          => (call.alive_at_check /\ call.grace_expired)
    /\ (call.pc = "returned" /\ call.alive_at_check /\ ~call.grace_expired)
          => worker.status # "killed"

\* C12 as stated: a graceful stop is requested only after the deadline
\* expired with the worker alive, a kill is issued only after a graceful
\* stop and an expired grace window, a worker that exits within the grace
\* window is not killed, and a worker that ignores the graceful stop is
\* always killed.
C12_IgnoringWorkerAlwaysKilled ==
    /\ TerminationOrder
    /\ (call.pc = "returned" /\ worker.ignores_term)
          => worker.status = "killed"

\* C12: a graceful stop is requested only after the deadline expired with
\* the worker alive, a kill is issued only after a graceful stop and an
\* expired grace window, a worker that exits within the grace window is
\* not killed, and a worker that is still alive when the host checks it
\* after the grace window is always killed.
C12_TerminationStateMachine ==
    /\ TerminationOrder
    /\ (call.pc = "returned" /\ call.alive_after_grace)
          => worker.status = "killed"

C12_Witness ==
    /\ call.pc = "returned"
    /\ call.deadline_status # ""
    /\ call.alive_at_check
    /\ worker.ignores_term
    /\ call.grace_expired
    /\ call.alive_after_grace
    /\ worker.status = "killed"

ErrorKinds == {"Timeout", "Error", "No result returned", "Exception"}

\* what a returned call hands to execute_auction_round
TypedOutcome(c) ==
    IF c.kind = "bid"
    THEN \/ c.ret.ok /\ c.ret.error = "None" /\ c.ret.bid \in Int
         \/ ~c.ret.ok /\ c.ret.error \in ErrorKinds /\ c.ret.bid = 0
    ELSE \/ c.ret.ok /\ c.ret.error = "None"
         \/ ~c.ret.ok /\ c.ret.error \in ErrorKinds \cup {"NoState"}

\* C13: a bid or update call of a registered team ends by returning a
\* typed outcome, whatever the guest does (raises, exits without a result,
\* hangs): no call ends the game, the round goes on with the next step,
\* and a game that made calls runs to completion with T logged rounds.
C13_CallsReturnTypedOutcomes ==
    /\ (call.kind # "none" /\ call.team \in DOMAIN agent_metadata)
          => /\ call.pc \in {"join", "check", "grace", "check2", "get",
                              "returned"}
             /\ call.pc = "returned" =>
                   /\ TypedOutcome(call)
                   /\ ENABLED (CollectBid \/ CollectUpdate)
    /\ (\E t \in Teams : history[t] # {})
          => gm_pc.phase \in {"bids", "settle", "updates", "append",
                               "results", "completed"}
    /\ gm_pc.phase = "completed" => Len(auction_log) = T_AUCTION_ROUNDS

C13_Witness ==
    /\ gm_pc.phase = "completed"
    /\ Len(auction_log) = T_AUCTION_ROUNDS
    /\ \E t \in DOMAIN agent_metadata : \E h \in history[t] :
          h[3] \in {"Timeout", "Failed"}

\* C14: a bid call returns error None exactly when the result it took from
\* its worker has status success; every other way of returning (timeout,
\* error result, no result, host-side exception, team not registered)
\* gives bid 0 with a non-empty error.
C14_ErrorNoneIffSuccess ==
    [][(call'.kind = "bid" /\ call'.pc = "returned" /\ call.pc # "returned")
        => /\ (call'.ret.error = "None")
                 <=> (/\ call.pc = "get"
                      /\ worker.queue # <<>>
                      /\ Head(worker.queue).status = "success")
           /\ call'.ret.error # "None"
                 => /\ call'.ret.bid = 0
                    /\ call'.ret.error \in ErrorKinds \cup {"Agent not registered"}
                    /\ ~call'.ret.ok]_vars

C14_Witness ==
    /\ call.kind = "bid"
    /\ call.pc = "returned"
    /\ call.ret.error = "Error"
    /\ call.ret.bid = 0
    /\ ~call.ret.ok
    /\ worker.op_invoked

\* the team whose load_agent is running
Loading == TeamSeq[gm_pc.idx]

\* C15: a load_agent leaves the host's budgets, valuations, items_won, log
\* and logging configuration and the record and state of every other team
\* as they were, whatever the guest's module-level code and constructor do.
C15_RegistrationLeavesHostStateAlone ==
    [][gm_pc.phase = "loading" =>
        /\ hostvars' = hostvars
        /\ \A u \in DOMAIN agent_metadata \ {Loading} :
              agent_metadata'[u] = agent_metadata[u]
        /\ \A u \in DOMAIN agent_states \ {Loading} :
              agent_states'[u] = agent_states[u]]_vars

\* C16: every state a worker sends and every state the host stores holds
\* plain data only, and taking a result from the queue runs no callable
\* named by the guest in the host process.
C16_OnlyPlainDataCrosses ==
    /\ worker.queue # <<>> => Payload \notin Head(worker.queue).new_state
    /\ \A t \in DOMAIN agent_states : Payload \notin agent_states[t].d
    /\ \A e \in host_exec : e[2] # "result_queue.get"

\* C17: from the first round on, no guest module is loaded and no guest
\* constructor or method runs in the host process, for every team id.
C17_NoGuestCodeInHostDuringRounds ==
    \A e \in host_exec : e[2] = "load_agent"

\* C18: when load_agent returns None for a team, initialize_game returns
\* False and run_game raises: no round is started, no bid or update call
\* is made and nothing is logged.
C18_FailedRegistrationAbortsGame ==
    /\ (\E t \in Teams :
          load_agent(team_agents[t], AgentObject(team_agents[t])) = "None")
          => gm_pc.phase \in {"uninit", "loading", "init_failed", "crashed",
                               "blocked"}
    /\ gm_pc.phase = "init_failed" =>
          /\ gm_pc.round = 0
          /\ auction_log = <<>>
          /\ \A t \in Teams : history[t] = {}
          /\ call = NoCall
          /\ worker = NoWorker
          /\ ~ENABLED Next

C18_Witness ==
    /\ gm_pc.phase = "init_failed"
    /\ agents = {"team_good"}
    /\ "your_agent" \notin DOMAIN agent_metadata

\* C19: load_agent for a missing file, a module without BiddingAgent, an
\* object that fails validate_agent or a loading / constructor that raises
\* returns None without raising, registers nothing for the team and leaves
\* the record and state of every other team as they were.
C19_FailedLoadReturnsNone ==
    [][(/\ gm_pc.phase = "loading"
        /\ gm_pc' # gm_pc
        /\ team_agents[Loading] \in FailingFiles \ {"import_hangs"})
        => /\ gm_pc'.phase = "init_failed"
           /\ Loading \notin DOMAIN agent_metadata'
           /\ Loading \notin DOMAIN agent_states'
           /\ \A u \in DOMAIN agent_metadata :
                 agent_metadata'[u] = agent_metadata[u]
           /\ \A u \in DOMAIN agent_states :
                 agent_states'[u] = agent_states[u]]_vars

\* the shape of the guest-code contract
HasShape(agent) ==
    /\ \A n \in {"bidding_function", "update_after_each_round"} :
          n \in DOMAIN agent /\ agent[n] = "callable"
    /\ {"team_id", "valuation_vector", "budget"} \subseteq DOMAIN agent

\* C20: validate_agent accepts an object iff it has bidding_function and
\* update_after_each_round as callables and has team_id, valuation_vector
\* and budget; a team is registered only if its object is accepted.
C20_ValidateAcceptsExactlyTheShape ==
    test_agent \in AgentObjects =>
        /\ validate_agent(test_agent) <=> HasShape(test_agent)
        /\ agents # {} => HasShape(test_agent)
        /\ DOMAIN agent_metadata # {} => HasShape(test_agent)
        /\ gm_pc.phase = "init_failed" => ~HasShape(test_agent)

C20_Witness ==
    /\ gm_pc.phase = "initialized"
    /\ DOMAIN agent_metadata = Teams
    /\ test_agent \in AgentObjects
    /\ HasShape(test_agent)
    /\ test_agent["budget"] = "callable"

\* team t's call of the given kind for the item of round k has returned
Returned(t, kind, k) ==
    \E h \in history[t] : h[1] = kind /\ h[2] = auction_sequence[k]

\* C21: within a round every team's bid call has returned before
\* settlement runs, the winner is debited and the item recorded before any
\* update call, every team's update call has returned before the result
\* is appended, and no bid call of round k+1 starts before the update
\* calls of round k have returned.
C21_RoundStepsInOrder ==
    /\ gm_pc.phase \in {"settle", "updates", "append"}
          => /\ DOMAIN bids = agents
             /\ \A t \in agents : Returned(t, "bid", gm_pc.round)
    /\ gm_pc.phase = "settle" => call = NoCall /\ worker = NoWorker
    /\ call.kind = "update"
          => /\ round_result.round_number = gm_pc.round
             /\ round_result.item_id = call.item
             /\ Len(auction_log) = gm_pc.round - 1
             /\ round_result.winner_id # ""
                   => /\ items_won[round_result.winner_id] # <<>>
                      /\ items_won[round_result.winner_id]
                            [Len(items_won[round_result.winner_id])] = call.item
                      /\ budgets[round_result.winner_id]
                            <= INITIAL_BUDGET - round_result.price_paid
    /\ gm_pc.phase = "append"
          => /\ call = NoCall
             /\ \A t \in agents : Returned(t, "update", gm_pc.round)
    /\ (call.kind = "bid" /\ gm_pc.round > 1)
          => /\ Len(auction_log) = gm_pc.round - 1
             /\ \A t \in agents : Returned(t, "update", gm_pc.round - 1)

C21_Witness ==
    /\ gm_pc.phase = "settle"
    /\ gm_pc.round = 2
    /\ \E t \in agents :
          <<"bid", auction_sequence[2], "Timeout">> \in history[t]

\* C22: a team's budget never increases during a game.
C22_BudgetsNeverIncrease ==
    [][\A t \in DOMAIN budgets : budgets'[t] <= budgets[t]]_vars

C22_Witness ==
    \E t \in DOMAIN budgets :
        /\ Len(items_won[t]) >= 2
        /\ budgets[t] < INITIAL_BUDGET
        /\ \E k \in 1..Len(auction_log) :
              /\ auction_log[k].winner_id = t
              /\ auction_log[k].price_paid > 0
              /\ budgets[t] < INITIAL_BUDGET - auction_log[k].price_paid

\* C23: the settlement of a round with a winner lowers exactly the
\* winner's budget by exactly price_paid and appends the item to exactly
\* the winner's items_won; when all bids clip to 0 there is no winner and
\* nothing changes; no other step of a round changes budgets or items_won.
C23_OnlyWinnerIsDebited ==
    [][/\ gm_pc.phase = "settle" =>
            LET rr == round_result'
                w == rr.winner_id
            IN  /\ rr.round_number = gm_pc.round
                /\ rr.item_id = auction_sequence[gm_pc.round]
                /\ w # "" =>
                      /\ w \in agents
                      /\ budgets' = [budgets EXCEPT ![w] = @ - rr.price_paid]
                      /\ items_won' = [items_won EXCEPT ![w] = Append(@, rr.item_id)]
                /\ w = "" => (budgets' = budgets /\ items_won' = items_won)
                /\ (\A t \in DOMAIN bids : Clip(bids[t], budgets[t]) = 0)
                      => w = ""
       /\ gm_pc.phase \in {"bids", "updates", "append"}
             => (budgets' = budgets /\ items_won' = items_won)]_vars

C23_Witness ==
    /\ gm_pc.phase = "updates"
    /\ round_result.winner_id = ""
    /\ \E t \in DOMAIN bids : bids[t] < 0
    /\ \E k \in 1..Len(auction_log) : auction_log[k].winner_id # ""

\* the second-highest of the clipped bids c: the largest amount that at
\* least two teams bid at least, 0 if there is none
SecondHighest(c) ==
    Max({0} \cup {c[t] : t \in {u \in DOMAIN c :
                       Cardinality({x \in DOMAIN c : c[x] >= c[u]}) >= 2}})

\* C24: for the bids and budgets handed to settlement, price_paid is the
\* second-highest bid after clipping each bid to [0, budget of its team],
\* and it is not larger than the winner's clipped bid.
C24_PriceIsSecondHighestClippedBid ==
    [][gm_pc.phase = "settle" =>
         LET c == [t \in DOMAIN bids |-> Clip(bids[t], budgets[t])]
             rr == round_result'
         IN  /\ \A t \in DOMAIN c : 0 <= c[t] /\ c[t] <= budgets[t]
             /\ rr.price_paid = SecondHighest(c)
             /\ rr.winner_id # "" => /\ rr.price_paid <= c[rr.winner_id]
                                      /\ \A t \in DOMAIN c : c[t] <= c[rr.winner_id]
             /\ rr.price_paid >= 0]_vars

C24_Witness ==
    /\ gm_pc.phase = "updates"
    /\ round_result.winner_id # ""
    /\ round_result.price_paid > 0
    /\ round_result.all_bids[round_result.winner_id] > INITIAL_BUDGET
    /\ round_result.price_paid < INITIAL_BUDGET

\* the rounds team t won, by the log
RoundsWon(t) == {k \in 1..Len(auction_log) : auction_log[k].winner_id = t}

RECURSIVE Total(_, _)
\* the sum of f over the finite set S
Total(f, S) == IF S = {} THEN 0
               ELSE LET x == CHOOSE y \in S : TRUE
                    IN  f[x] + Total(f, S \ {x})

\* C25: after round T every team's reported utility is the total of its
\* own valuations of the items it won minus what it spent, what it spent
\* is the initial budget minus its remaining budget, and spent plus
\* remaining is the initial budget.
C25_UtilityIsValueMinusSpending ==
    gm_pc.phase = "completed" =>
        /\ DOMAIN team_results = agents
        /\ \A t \in agents :
             LET r == team_results[t]
                 won == [k \in RoundsWon(t) |->
                           fixed_valuations[t][auction_log[k].item_id]]
             IN  /\ r.total_valuation_won = Total(won, RoundsWon(t))
                 /\ r.budget_spent = INITIAL_BUDGET - budgets[t]
                 /\ r.budget_remaining = budgets[t]
                 /\ r.budget_spent + r.budget_remaining = INITIAL_BUDGET
                 /\ r.utility = r.total_valuation_won - r.budget_spent

C25_Witness ==
    /\ gm_pc.phase = "completed"
    /\ \E t \in agents :
          /\ Len(team_results[t].items_won) >= 2
          /\ team_results[t].budget_spent > 0
          /\ team_results[t].utility < 0

\* the calls of the given kind team t made for the item, by their outcome
CallsFor(t, kind, item) == {h \in history[t] : h[1] = kind /\ h[2] = item}

\* C26: in a round each team gets exactly one bid call and at most one
\* update call: a call for a team, kind and item starts only if none was
\* made before, a failed or timed-out call is not issued again, and a
\* call starts at most one worker.
C26_NoCallIsRetried ==
    [][/\ (call.kind = "none" /\ call'.kind # "none")
            => /\ CallsFor(call'.team, call'.kind, call'.item) = {}
               /\ call'.item = auction_sequence[gm_pc.round]
               /\ worker = NoWorker
       /\ worker'.status = "started"
            => /\ worker.status \in {"none", "started"}
               /\ worker'.team = call'.team
               /\ worker'.args.kind = call'.kind
               /\ worker'.args.item_id = call'.item
       /\ (worker.status # "none" /\ worker'.status # "none")
            => (worker'.team = worker.team /\ worker'.args = worker.args)
       /\ \A t \in Teams : \A h \in history'[t] :
             Cardinality({g \in history'[t] :
                            g[1] = h[1] /\ g[2] = h[2]}) <= 1
       /\ gm_pc'.phase = "settle"
            => \A t \in agents :
                  \E h \in history'[t] :
                     h[1] = "bid" /\ h[2] = auction_sequence[gm_pc.round]]_vars

C26_Witness ==
    /\ call.kind = "update"
    /\ call.pc = "join"
    /\ worker.status = "started"
    /\ CallsFor(call.team, "bid", call.item) = {<<"bid", call.item, "Timeout">>}

\* C27: a call that reaches execution has exactly one worker, started
\* for this call with its team, kind and item; the worker is not running
\* when the call returns, whether with a result, an error or a timeout,
\* and no worker exists between two calls.
C27_WorkersAreSingleUse ==
    /\ call.pc \in {"join", "check", "grace", "check2", "get"}
          => /\ worker.status # "none"
             /\ worker.team = call.team
             /\ worker.args.kind = call.kind
             /\ worker.args.item_id = call.item
             /\ worker.args.agent_state = call.agent_state
    /\ call.pc = "returned" => ~Alive(worker)
    /\ call.kind = "none" => worker = NoWorker
    /\ call.pc \in {"get", "returned"} /\ worker.status # "none"
          => worker.status \in {"exited", "terminated", "killed"}

C27_Witness ==
    /\ call.kind = "update"
    /\ call.pc = "returned"
    /\ call.ret.error = "Timeout"
    /\ worker.status = "killed"
    /\ worker.queue # <<>>

----------------------------------------------------------------------------
(* C28 *)

\* what the host stores for a guest object: the filtered fields as they come
\* out of the queue
StoredFor(agent) == loads(Serialize(agent))

\* after a successful call the checkpoint is the unpickled filter of the
\* guest object: private, callable and unpicklable fields are left out
CheckpointIsUnpickledFilter ==
    call.pc = "returned" /\ call.ret.ok
        => agent_states[call.team] = Some(StoredFor(worker.agent))

\* C28: after a successful bid or update call the new checkpoint contains
\* exactly the public, non-callable, serializable fields of the guest
\* object, each with the value it had when the operation returned
C28_CheckpointIsTheFilteredObject ==
    call.pc = "returned" /\ call.ret.ok
        => agent_states[call.team] = Some(Serialize(worker.agent))

----------------------------------------------------------------------------
(* C29 *)

PublicFields(agent) == {f \in agent : ~startswith_underscore(f)}

\* a scalar or container of scalars: the guest's own record of a call
PlainValue(f) == f[1] \in {"bid", "update", "big"}

AllPlain(agent) == \A f \in PublicFields(agent) : PlainValue(f)

\* C29: a checkpoint of plain scalars and containers round-trips unchanged.
\* When a successful call ends with only such values in the public fields
\* of the guest object, the checkpoint stored for the team holds exactly
\* those fields; the checkpoint stays as stored until the team's next
\* successful call; and the object the guest's next operation starts from
\* has exactly the checkpoint's fields.
C29_PlainCheckpointRoundTrips ==
    [][/\ (call.pc = "get" /\ call'.pc = "returned" /\ call'.ret.ok
              /\ AllPlain(worker.agent))
            => agent_states'[call.team] = Some(PublicFields(worker.agent))
       /\ \A t \in DOMAIN agent_states :
             (InRound /\ agent_states'[t] # agent_states[t])
                => call.pc = "get" /\ call.team = t /\ call'.ret.ok
       /\ (worker.status = "started" /\ worker'.status = "constructed"
              /\ AllPlain(agent_states[worker.team].d))
            => /\ PublicFields(worker'.agent) = agent_states[worker.team].d
               /\ worker.args.agent_state = agent_states[worker.team]]_vars

C29_Witness ==
    /\ worker.status = "constructed"
    /\ worker.restored.some
    /\ AllPlain(worker.agent)
    /\ Cardinality(worker.agent) >= 2
    /\ worker.agent = agent_states[worker.team].d

----------------------------------------------------------------------------
(* C30 *)

\* the constructor arguments a worker was started with
CtorArgs(w) ==
    [f \in {"file_path", "team_id", "valuation_vector", "budget",
            "opponent_teams"} |-> w.args[f]]

\* a worker is started in this step
Spawned == worker'.status = "started" /\ worker # worker'

\* no step of a bid or update call changes a registration record, and a
\* worker is started with the record stored at that moment
CallsLeaveRegistrationAlone ==
    [][/\ call.kind # "none" => agent_metadata' = agent_metadata
       /\ Spawned => /\ CtorArgs(worker') = agent_metadata[worker'.team]
                     /\ worker'.args.budget = INITIAL_BUDGET]_vars

\* C30: a team's registration record (code location, team_id, valuation
\* vector, budget, opponent ids) never changes once it is registered, and
\* every call constructs the guest object from the arguments that were
\* registered
C30_RegistrationRecordIsImmutable ==
    [][/\ \A t \in DOMAIN agent_metadata :
             /\ t \in DOMAIN agent_metadata'
             /\ agent_metadata'[t] = agent_metadata[t]
       /\ Spawned => CtorArgs(worker') = Registered(worker'.team)]_vars

----------------------------------------------------------------------------
(* C31 *)

Succeeded(t) == \E h \in history[t] : h[3] = "success"

\* C31: a team's checkpoint is absent from its registration until its first
\* successful call and present at every point after a successful call of
\* the team.
C31_CheckpointPresentIffSucceeded ==
    \A t \in DOMAIN agent_states : agent_states[t].some <=> Succeeded(t)

C31_Witness ==
    \E t \in DOMAIN agent_states : \E u \in DOMAIN agent_states :
       /\ ~agent_states[t].some
       /\ \E h \in history[t] : h[3] \in {"Timeout", "Failed"}
       /\ \E h \in history[t] : h[3] = "NoState"
       /\ agent_states[u].some
       /\ Cardinality(agent_states[u].d) >= 2

----------------------------------------------------------------------------
(* C32 *)

\* the record the host writes to its log when a call returns with outcome
\* c; the worker functions write none
Logged(c) ==
    CASE c.ret.ok -> IF c.kind = "bid" THEN "debug: Bid" ELSE "nothing"
      [] c.ret.error = "Timeout" -> "warning: timeout"
      [] c.ret.error = "NoState" -> "warning: Cannot update agent with no state"
      [] c.ret.error \in {"Agent not registered", "NotRegistered"} ->
            "error: not registered"
      [] c.ret.error = "Error" -> "error: guest error"
      [] c.ret.error = "No result returned" -> "error: Failed to get result"
      [] OTHER -> "error: Unexpected error"

\* the public, non-callable fields pickle.dumps raises on
Dropped(agent) ==
    {f \in agent : /\ ~startswith_underscore(f)
                   /\ ~callable_value(f)
                   /\ ~dumps_ok(f)}

\* the fields the worker keeps when it drops the unserializable ones
KeptBesides(agent) ==
    {f \in agent : ~startswith_underscore(f) /\ ~callable_value(f)}
       \ Dropped(agent)

\* a worker whose guest object holds an unserializable public field puts
\* its result / the host takes that result
PutsWithDrop ==
    /\ worker.status = "ran" /\ worker'.status = "put"
    /\ Dropped(worker.agent) # {}

TakesWithDrop ==
    /\ call.pc = "get" /\ call'.pc = "returned"
    /\ worker.queue # <<>>
    /\ Dropped(worker.agent) # {}

\* C32 as stated: when a public field of the guest object is not
\* serializable the call still succeeds, the field is dropped while the
\* other eligible fields are kept, and the drop is logged
C32_DropIsLogged ==
    [][/\ PutsWithDrop =>
             /\ Head(worker'.queue).status = "success"
             /\ Head(worker'.queue).new_state = KeptBesides(worker.agent)
       /\ TakesWithDrop =>
             /\ call'.ret.ok
             /\ agent_states'[call.team] = Some(loads(KeptBesides(worker.agent)))
             /\ Logged(call') = "warning: field dropped"]_vars

\* C32 (amended): when a public field of the guest object is not
\* serializable the call still succeeds, the field is dropped while the
\* other eligible fields are kept, and nothing is logged about the drop:
\* the log holds what it holds for any successful call
C32_DropIsSilent ==
    [][/\ PutsWithDrop =>
             /\ Head(worker'.queue).status = "success"
             /\ Head(worker'.queue).new_state = KeptBesides(worker.agent)
       /\ TakesWithDrop =>
             /\ call'.ret.ok
             /\ agent_states'[call.team] = Some(loads(KeptBesides(worker.agent)))
             /\ Dropped(worker.agent) \cap agent_states'[call.team].d = {}
             /\ Logged(call') = IF call.kind = "bid" THEN "debug: Bid"
                                ELSE "nothing"]_vars

C32_Witness ==
    /\ call.pc = "returned"
    /\ call.kind = "bid"
    /\ call.ret.ok
    /\ LockField \in worker.agent
    /\ agent_states[call.team].some
    /\ LockField \notin agent_states[call.team].d
    /\ <<"bid", call.item>> \in agent_states[call.team].d

----------------------------------------------------------------------------
(* C33 *)

\* the steps of run_game from one phase to the next
PhaseSteps ==
    {<<"uninit", "loading">>, <<"loading", "initialized">>,
     <<"loading", "init_failed">>, <<"loading", "crashed">>,
     <<"loading", "blocked">>, <<"initialized", "bids">>,
     <<"bids", "settle">>, <<"settle", "updates">>, <<"updates", "append">>,
     <<"append", "bids">>, <<"append", "results">>,
     <<"results", "completed">>}

RunningRound == gm_pc.phase \in {"bids", "settle", "updates", "append"}

\* C33: run_game goes Uninitialized -> Initialized -> RunningRound(1) -> ...
\* -> RunningRound(T) -> Completed: rounds run in increasing order, each
\* once, round k auctions the k-th item of the auction sequence, and at
\* Completed the log holds exactly T RoundResults in round order.
C33_RunGameStateMachine ==
    [][/\ gm_pc'.phase # gm_pc.phase
             => <<gm_pc.phase, gm_pc'.phase>> \in PhaseSteps
       /\ gm_pc'.round # gm_pc.round
             => /\ gm_pc'.round = gm_pc.round + 1
                /\ gm_pc'.phase = "bids"
                /\ gm_pc.phase \in {"initialized", "append"}
                /\ gm_pc'.round \in 1..T_AUCTION_ROUNDS
       /\ gm_pc.phase = "append" /\ gm_pc'.phase = "results"
             => gm_pc.round = T_AUCTION_ROUNDS
       /\ RunningRound'
             => Len(auction_log') = gm_pc'.round - 1
       /\ \A k \in 1..Len(auction_log') :
             /\ auction_log'[k].round_number = k
             /\ auction_log'[k].item_id = auction_sequence[k]
       /\ call'.kind # "none" => call'.item = auction_sequence[gm_pc'.round]
       /\ round_result' # NoResult
             => /\ round_result'.round_number = gm_pc'.round
                /\ round_result'.item_id = auction_sequence[gm_pc'.round]
       /\ gm_pc'.phase \in {"results", "completed"}
             => /\ Len(auction_log') = T_AUCTION_ROUNDS
                /\ gm_pc'.round = T_AUCTION_ROUNDS]_vars

C33_Witness ==
    /\ gm_pc.phase = "completed"
    /\ Len(auction_log) = T_AUCTION_ROUNDS
    /\ \E k \in 1..Len(auction_log) : auction_log[k].winner_id # ""
    /\ \E k \in 1..Len(auction_log) : auction_log[k].winner_id = ""

----------------------------------------------------------------------------
(* C34 *)

\* C34: every bid amount returned by a bid call and handed to settlement is
\* at least 0, also when the guest's bid operation returned a negative
\* number
C34_BidsAreNonNegative ==
    /\ (call.kind = "bid" /\ call.pc = "returned") => call.ret.bid >= 0
    /\ \A t \in DOMAIN bids : bids[t] >= 0

----------------------------------------------------------------------------
(* C35 *)

\* the team of the call a step belongs to
CallTeam == IF call.kind # "none" THEN call.team ELSE call'.team

\* C35: checkpoints are partitioned by team. The checkpoint a call for team
\* A reads and hands to its worker is A's, and no step of the call,
\* whether it ends in success, failure or timeout, changes the checkpoint
\* of another team.
C35_CheckpointsArePartitioned ==
    [][/\ (call.kind # "none" \/ call'.kind # "none")
             => \A t \in DOMAIN agent_states \ {CallTeam} :
                   /\ t \in DOMAIN agent_states'
                   /\ agent_states'[t] = agent_states[t]
       /\ (call.kind = "none" /\ call'.kind # "none"
              /\ call'.team \in DOMAIN agent_states)
             => \/ call'.agent_state = agent_states[call'.team]
                \/ call'.ret.error \in {"Agent not registered", "NotRegistered"}
       /\ Spawned
             => /\ worker'.team = call'.team
                /\ worker'.args.agent_state = agent_states[call'.team]]_vars

C35_Witness ==
    /\ call.pc = "returned"
    /\ call.agent_state.some
    /\ \E u \in DOMAIN agent_states \ {call.team} :
          /\ agent_states[u].some
          /\ agent_states[u] # call.agent_state
          /\ agent_states[u] # agent_states[call.team]
    /\ \E h \in history[call.team] : h[3] \in {"Timeout", "Failed"}

----------------------------------------------------------------------------
(* C36 *)

\* an update call for a registered team without a checkpoint starts
UpdateWithoutCheckpoint ==
    /\ call.kind = "none" /\ call'.kind = "update"
    /\ call'.team \in DOMAIN agent_states
    /\ ~agent_states[call'.team].some

\* C36: update_agent_after_round for a team that has no checkpoint yet
\* returns False without starting a worker and without invoking the guest's
\* update operation, and the checkpoint stays absent; hence no update
\* worker ever runs without a checkpoint and the first successful call of
\* a team is a bid.
C36_UpdateWithoutCheckpointIsSkipped ==
    [][/\ UpdateWithoutCheckpoint
             => /\ call'.pc = "returned"
                /\ ~call'.ret.ok
                /\ worker' = NoWorker
                /\ agent_states' = agent_states
                /\ <<"update", call'.item, "NoState">> \in history'[call'.team]
       /\ (worker'.status # "none" /\ worker'.args.kind = "update")
             => worker'.args.agent_state.some
       /\ \A t \in DOMAIN history' : \A h \in history'[t] :
             (h[1] = "update" /\ h[3] = "success")
                => \E g \in history'[t] :
                      /\ g[1] = "bid" /\ g[3] = "success"
                      /\ CallOrder(g[1], g[2]) < CallOrder(h[1], h[2])]_vars

C36_Witness ==
    /\ call.kind = "update"
    /\ call.pc = "returned"
    /\ call.ret.error = "NoState"
    /\ worker = NoWorker
    /\ ~agent_states[call.team].some
    /\ \E h \in history[call.team] : h[1] = "bid" /\ h[3] \in {"Timeout", "Failed"}

----------------------------------------------------------------------------
(* C37 *)

\* the host takes a result from the queue in this step
Consumed == Len(worker'.queue) < Len(worker.queue) /\ worker'.status # "none"

\* a call whose worker was alive at the deadline returns in this step
TimesOut ==
    call.pc # "returned" /\ call'.pc = "returned" /\ call.alive_at_check

\* C37: a result a worker produced is consumed by the call the worker was
\* started for or by none. A call starts with an empty result channel; a
\* result is taken only by the call whose worker put it, and only on the
\* path that did not time out; a call that times out leaves a late result
\* unread, returns bid 0 and changes no checkpoint, and what the guest did
\* in a timed-out call is in no checkpoint afterwards.
C37_LateResultIsDiscarded ==
    [][/\ Spawned => worker'.queue = <<>>
       /\ Consumed
             => /\ call.pc = "get"
                /\ worker.team = call.team
                /\ worker.args.kind = call.kind
                /\ worker.args.item_id = call.item
                /\ call'.ret.error # "Timeout"
                /\ ~call.alive_at_check
       /\ TimesOut
             => /\ call'.ret.error = "Timeout"
                /\ call'.ret.bid = 0
                /\ ~call'.ret.ok
                /\ worker'.queue = worker.queue
                /\ agent_states' = agent_states
       /\ (call.kind = "bid" /\ call.pc = "returned"
              /\ call.ret.error = "Timeout" /\ call'.kind = "none")
             => bids'[call.team] = 0
       /\ \A t \in DOMAIN agent_states' : \A h \in history'[t] :
             h[3] = "Timeout" => <<h[1], h[2]>> \notin agent_states'[t].d]_vars

C37_Witness ==
    /\ call.kind = "bid"
    /\ call.pc = "returned"
    /\ call.ret.error = "Timeout"
    /\ call.ret.bid = 0
    /\ worker.queue # <<>>
    /\ Head(worker.queue).status = "success"
    /\ Head(worker.queue).bid # 0
    /\ <<"bid", call.item>> \in Head(worker.queue).new_state
    /\ <<"bid", call.item>> \notin agent_states[call.team].d

----------------------------------------------------------------------------
(* C38 *)

\* a call whose worker put a result too large for the pipe always ends in
\* Timeout, with the result unread
OversizedResultTimesOut ==
    (/\ call.pc = "returned"
     /\ worker.queue # <<>>
     /\ BigField \in Head(worker.queue).new_state)
        => call.ret.error = "Timeout"

\* C38: the host reports Timeout only for calls whose guest operation had
\* not completed by the deadline; a call whose worker had handed its result
\* to the result channel before the deadline is reported as a success with
\* that bid and that checkpoint, whatever the size of the checkpoint
C38_TimeoutOnlyIfNotCompletedByDeadline ==
    (call.pc = "returned" /\ call.deadline_status = "put")
        => /\ call.ret.error # "Timeout"
           /\ call.ret.ok

----------------------------------------------------------------------------
(* C39 *)

\* a successful load_agent of file for team t happens in this step
Registering(t, file) ==
    /\ ClientReady
    /\ call'.kind = "none"
    /\ gm_pc'.idx = gm_pc.idx + 1
    /\ LoadOk(file)
    /\ Register(t, file, AgentObject(file))

\* C39: a successful load_agent for a team that already has a checkpoint
\* resets the checkpoint to absent and replaces the registration record,
\* and the first call after it constructs the guest object from the new
\* record and applies no state of the calls made before.
C39_ReloadResetsCheckpoint ==
    [][/\ \A t \in Teams : \A file \in ClientFiles :
             Registering(t, file)
                => /\ agent_states'[t] = None
                   /\ agent_metadata'[t].file_path = file
                   /\ agent_metadata'[t].valuation_vector = valuations[t]
                   /\ agent_metadata'[t].budget = INITIAL_BUDGET
       /\ Spawned
             => /\ worker'.args.agent_state = agent_states[worker'.team]
                /\ CtorArgs(worker') = agent_metadata[worker'.team]
       /\ (worker.status = "started" /\ worker'.status = "constructed"
              /\ ~worker.args.agent_state.some)
             => worker'.agent = {}
       /\ \A t \in DOMAIN agent_states :
             (~agent_states[t].some /\ t \in DOMAIN agent_states'
                /\ agent_states'[t].some)
                => call.team = t /\ call.pc = "get" /\ call'.ret.ok]_vars

C39_Witness ==
    /\ gm_pc.phase = "client"
    /\ worker.status = "constructed"
    /\ worker.agent = {}
    /\ ~agent_states[worker.team].some
    /\ Succeeded(worker.team)
    /\ worker.args.file_path = "module_saboteur"

----------------------------------------------------------------------------
(* C40 *)

\* the results of the rounds settled so far, in round order: the log and
\* the result of the round in progress once it is settled
Settled ==
    IF round_result # NoResult THEN Append(auction_log, round_result)
    ELSE auction_log

\* the rounds settled so far that team t won
SettledWonBy(t) == {k \in 1..Len(Settled) : Settled[k].winner_id = t}

RECURSIVE ItemsOf(_, _)
\* the items of the rounds k..Len(Settled) that team t won, in round order
ItemsOf(t, k) ==
    IF k > Len(Settled) THEN <<>>
    ELSE IF Settled[k].winner_id = t
         THEN <<Settled[k].item_id>> \o ItemsOf(t, k + 1)
         ELSE ItemsOf(t, k + 1)

\* C40: at any point of a game, for every team the initial budget minus
\* its current budget is the sum of price_paid over the rounds it won, its
\* items_won is the sequence of the items of those rounds in round order,
\* and no item is in the items_won of two teams or twice in one.
C40_BudgetAccounting ==
    \A t \in DOMAIN budgets :
       LET paid == [k \in SettledWonBy(t) |-> Settled[k].price_paid]
       IN  /\ INITIAL_BUDGET - budgets[t] = Total(paid, SettledWonBy(t))
           /\ items_won[t] = ItemsOf(t, 1)
           /\ \A i \in 1..Len(items_won[t]) : \A j \in 1..Len(items_won[t]) :
                 items_won[t][i] = items_won[t][j] => i = j
           /\ \A u \in DOMAIN budgets \ {t} :
                 \A i \in 1..Len(items_won[t]) : \A j \in 1..Len(items_won[u]) :
                    items_won[t][i] # items_won[u][j]

C40_Witness ==
    /\ gm_pc.phase = "completed"
    /\ \A t \in DOMAIN budgets :
          /\ Len(items_won[t]) >= 1
          /\ budgets[t] < INITIAL_BUDGET
    /\ \E t \in DOMAIN budgets : Len(items_won[t]) >= 2

====
